---- MODULE Spec2Model ----
(***************************************************************************)
(* MIDIBoy firmware: the real-time MIDI ingest, parse, route and link-     *)
(* transmit pipeline (midi_uart.c, mode_mgb.c, usb_midi.c, gb_link.c).     *)
(*                                                                         *)
(* Execution contexts: the UART RX interrupt (on_uart_rx), the real-time   *)
(* loop on core 0 (main -> mode_mgb_process) and the host side of USB.     *)
(* The real-time loop is modelled with a program counter rt_pc; the        *)
(* interrupt may fire between any two of its steps.                        *)
(***************************************************************************)
EXTENDS Integers, Sequences, FiniteSets, TLC

\* ---------------------------------------------------------------- bounds

\* log2 of the ring capacity used for checking (the firmware uses 256)
RingBits == 2

\* longest stream of bytes put on the UART line in one behaviour
MaxWire == 3

\* most event packets the USB host sends in one behaviour
MaxUsb == 2
MaxParse == 4

\* ------------------------------------------------------ program constants

MIDI_RX_BUFFER_SIZE == 2 ^ RingBits

MGB_CHANNEL_COUNT == 5

MGB_INTER_BYTE_DELAY_US == 500

MIDI_MSG_NONE == 0
MIDI_MSG_NOTE_OFF == 1
MIDI_MSG_NOTE_ON == 2
MIDI_MSG_POLY_PRESSURE == 3
MIDI_MSG_CONTROL_CHANGE == 4
MIDI_MSG_PROGRAM_CHANGE == 5
MIDI_MSG_CHANNEL_PRESSURE == 6
MIDI_MSG_PITCH_BEND == 7
MIDI_MSG_SYSEX_START == 8
MIDI_MSG_MTC_QUARTER == 9
MIDI_MSG_SONG_POSITION == 10
MIDI_MSG_SONG_SELECT == 11
MIDI_MSG_TUNE_REQUEST == 12
MIDI_MSG_SYSEX_END == 13
MIDI_MSG_CLOCK == 14
MIDI_MSG_START == 15
MIDI_MSG_CONTINUE == 16
MIDI_MSG_STOP == 17
MIDI_MSG_ACTIVE_SENSING == 18
MIDI_MSG_SYSTEM_RESET == 19

\* parser_state_t (PARSER_STATUS is declared by the source and never used)
PARSER_IDLE == "IDLE"
PARSER_DATA1 == "DATA1"
PARSER_DATA2 == "DATA2"
PARSER_SYSEX == "SYSEX"

\* ------------------------------------------------------------ octet helpers

\* b & 0xF0
HighNibble(b) == (b \div 16) * 16

\* b & 0x0F
LowNibble(b) == b % 16

\* (x + 1) & (MIDI_RX_BUFFER_SIZE - 1); the size is a power of two
RingNext(x) == (x + 1) % MIDI_RX_BUFFER_SIZE

Min(a, b) == IF a < b THEN a ELSE b

Max(a, b) == IF a > b THEN a ELSE b

\* ----------------------------------------------------------- midi_message_t

Message(t, ch, d1, d2, r0, r1, r2, len) ==
    [type |-> t, channel |-> ch, data1 |-> d1, data2 |-> d2,
     raw |-> <<r0, r1, r2>>, length |-> len]

\* a zero-initialised midi_message_t (static storage)
ZeroMessage == Message(MIDI_MSG_NONE, 0, 0, 0, 0, 0, 0, 0)

\* a table that gives every status byte two data bytes
get_data_byte_count_AlwaysTwo(status) == 2

get_data_byte_count(status) ==
    CASE HighNibble(status) \in {128, 144, 160, 176, 224} -> 2
      [] HighNibble(status) \in {192, 208} -> 1
      [] HighNibble(status) = 240 ->
            (CASE status = 240 -> 255
               [] status \in {241, 243} -> 1
               [] status = 242 -> 2
               [] OTHER -> 0)
      [] OTHER -> 0

get_message_type(status) ==
    CASE HighNibble(status) = 128 -> MIDI_MSG_NOTE_OFF
      [] HighNibble(status) = 144 -> MIDI_MSG_NOTE_ON
      [] HighNibble(status) = 160 -> MIDI_MSG_POLY_PRESSURE
      [] HighNibble(status) = 176 -> MIDI_MSG_CONTROL_CHANGE
      [] HighNibble(status) = 192 -> MIDI_MSG_PROGRAM_CHANGE
      [] HighNibble(status) = 208 -> MIDI_MSG_CHANNEL_PRESSURE
      [] HighNibble(status) = 224 -> MIDI_MSG_PITCH_BEND
      [] HighNibble(status) = 240 ->
            (CASE status = 240 -> MIDI_MSG_SYSEX_START
               [] status = 241 -> MIDI_MSG_MTC_QUARTER
               [] status = 242 -> MIDI_MSG_SONG_POSITION
               [] status = 243 -> MIDI_MSG_SONG_SELECT
               [] status = 246 -> MIDI_MSG_TUNE_REQUEST
               [] status = 247 -> MIDI_MSG_SYSEX_END
               [] status = 248 -> MIDI_MSG_CLOCK
               [] status = 250 -> MIDI_MSG_START
               [] status = 251 -> MIDI_MSG_CONTINUE
               [] status = 252 -> MIDI_MSG_STOP
               [] status = 254 -> MIDI_MSG_ACTIVE_SENSING
               [] status = 255 -> MIDI_MSG_SYSTEM_RESET
               [] OTHER -> MIDI_MSG_NONE)
      [] OTHER -> MIDI_MSG_NONE

is_realtime_message(byte) == byte >= 248

\* ------------------------------------------------------------------ parser
\* The parser works on the record
\*   [state, running, cur, expected, ready, queue, count, out]
\* of s_parser_state, s_running_status, s_current_msg, s_expected_data_bytes,
\* s_message_ready, s_message_queue, s_message_count, and out: the messages
\* the call completes, in order; each is handed to s_message_callback when a
\* callback is registered. raw[1..3] stands for the C array raw[0..2].

\* a dispatch_message without the zero-velocity rewrite
dispatch_message_NoCanon(p) ==
    [p EXCEPT !.count = p.count + 1,
              !.out = Append(p.out, p.cur),
              !.queue = IF p.ready THEN p.queue ELSE p.cur,
              !.ready = TRUE]

\* a dispatch_message whose zero-velocity rewrite reaches the running
\* status
dispatch_message_CanonRunning(p) ==
    LET zero == p.cur.type = MIDI_MSG_NOTE_ON /\ p.cur.data2 = 0
        canon == IF zero
                 THEN [p.cur EXCEPT !.type = MIDI_MSG_NOTE_OFF,
                                    !.raw[1] = 128 + p.cur.channel]
                 ELSE p.cur
    IN [p EXCEPT !.count = p.count + 1,
                 !.cur = canon,
                 !.running = IF zero /\ p.running # 0
                             THEN 128 + p.cur.channel ELSE p.running,
                 !.out = Append(p.out, canon),
                 !.queue = IF p.ready THEN p.queue ELSE canon,
                 !.ready = TRUE]

\* a dispatch_message that overwrites an occupied slot
dispatch_message_Overwrite(p) ==
    LET canon == IF p.cur.type = MIDI_MSG_NOTE_ON /\ p.cur.data2 = 0
                 THEN [p.cur EXCEPT !.type = MIDI_MSG_NOTE_OFF,
                                    !.raw[1] = 128 + p.cur.channel]
                 ELSE p.cur
    IN [p EXCEPT !.count = p.count + 1,
                 !.cur = canon,
                 !.out = Append(p.out, canon),
                 !.queue = canon,
                 !.ready = TRUE]

dispatch_message(p) ==
    LET canon == IF p.cur.type = MIDI_MSG_NOTE_ON /\ p.cur.data2 = 0
                 THEN [p.cur EXCEPT !.type = MIDI_MSG_NOTE_OFF,
                                    !.raw[1] = 128 + p.cur.channel]
                 ELSE p.cur
    IN [p EXCEPT !.count = p.count + 1,
                 !.cur = canon,
                 !.out = Append(p.out, canon),
                 !.queue = IF p.ready THEN p.queue ELSE canon,
                 !.ready = TRUE]

\* a real-time branch that does not count the message
parse_realtime_NoCount(p, byte) ==
    LET rt_msg == Message(get_message_type(byte), 0, 0, 0, byte, 0, 0, 1)
    IN [p EXCEPT !.out = Append(p.out, rt_msg)]

\* a real-time branch that also abandons the message being collected
parse_realtime_ToIdle(p, byte) ==
    LET rt_msg == Message(get_message_type(byte), 0, 0, 0, byte, 0, 0, 1)
    IN [p EXCEPT !.out = Append(p.out, rt_msg),
                 !.count = p.count + 1,
                 !.state = PARSER_IDLE]

parse_realtime(p, byte) ==
    LET rt_msg == Message(get_message_type(byte), 0, 0, 0, byte, 0, 0, 1)
    IN [p EXCEPT !.out = Append(p.out, rt_msg),
                 !.count = p.count + 1]

\* a status branch in which system messages keep the running status
status_running_Keep(running, byte) ==
    IF HighNibble(byte) = 240 THEN running ELSE byte

\* "System common messages clear running status", a channel message sets it
status_running(running, byte) ==
    IF HighNibble(byte) = 240 THEN 0 ELSE byte

\* a status branch that keeps the kind, channel and status of the message
\* it was collecting
begin_message_KeepPartial(p, byte) ==
    IF p.state \in {PARSER_DATA1, PARSER_DATA2}
    THEN [p EXCEPT !.cur = [p.cur EXCEPT !.length = 1],
                   !.state = PARSER_DATA1]
    ELSE [p EXCEPT !.cur = [p.cur EXCEPT
                               !.type = get_message_type(byte),
                               !.channel = LowNibble(byte),
                               !.raw[1] = byte,
                               !.length = 1],
                   !.state = PARSER_DATA1]

\* "Start collecting data bytes": the status byte begins a new message,
\* whatever was being collected
begin_message(p, byte) ==
    [p EXCEPT !.cur = [p.cur EXCEPT
                          !.type = get_message_type(byte),
                          !.channel = LowNibble(byte),
                          !.raw[1] = byte,
                          !.length = 1],
              !.state = PARSER_DATA1]

parse_status(p, byte) ==
    LET p1 == [p EXCEPT !.running = status_running(p.running, byte),
                        !.expected = get_data_byte_count(byte)]
    IN CASE byte = 240 -> [p1 EXCEPT !.state = PARSER_SYSEX]
         [] byte = 247 -> [p1 EXCEPT !.state = PARSER_IDLE]
         [] byte \notin {240, 247} /\ p1.expected = 0 ->
               [dispatch_message(
                    [p1 EXCEPT !.cur = [p1.cur EXCEPT
                                           !.type = get_message_type(byte),
                                           !.channel = LowNibble(byte),
                                           !.data1 = 0,
                                           !.data2 = 0,
                                           !.raw[1] = byte,
                                           !.length = 1]])
                 EXCEPT !.state = PARSER_IDLE]
         [] OTHER -> begin_message(p1, byte)

\* a data branch that never re-uses the running status
reuse_running_status_Never(p) == p

\* a data branch that starts a message in Idle without a running status
reuse_running_status_Always(p) ==
    IF p.state = PARSER_IDLE
    THEN [p EXCEPT !.expected = get_data_byte_count(p.running),
                   !.cur = [p.cur EXCEPT !.length = 1],
                   !.state = PARSER_DATA1]
    ELSE p

\* "Handle running status": a data byte in Idle under a running status
\* starts a message from that status
reuse_running_status(p) ==
    IF p.state = PARSER_IDLE /\ p.running # 0
    THEN [p EXCEPT !.expected = get_data_byte_count(p.running),
                   !.cur = [p.cur EXCEPT
                               !.type = get_message_type(p.running),
                               !.channel = LowNibble(p.running),
                               !.raw[1] = p.running,
                               !.length = 1],
                   !.state = PARSER_DATA1]
    ELSE p

parse_data(p, byte) ==
    LET p1 == reuse_running_status(p)
    IN CASE p1.state \in {PARSER_IDLE, PARSER_SYSEX} -> p1
         [] p1.state = PARSER_DATA1 ->
               LET p2 == [p1 EXCEPT !.cur = [p1.cur EXCEPT !.data1 = byte,
                                                            !.raw[2] = byte,
                                                            !.length = 2]]
               IN IF p2.expected = 1
                  THEN [dispatch_message(
                            [p2 EXCEPT !.cur = [p2.cur EXCEPT !.data2 = 0]])
                        EXCEPT !.state = PARSER_IDLE]
                  ELSE [p2 EXCEPT !.state = PARSER_DATA2]
         [] p1.state = PARSER_DATA2 ->
               [dispatch_message(
                    [p1 EXCEPT !.cur = [p1.cur EXCEPT !.data2 = byte,
                                                      !.raw[3] = byte,
                                                      !.length = 3]])
                EXCEPT !.state = PARSER_IDLE]

parse_byte(p, byte) ==
    IF is_realtime_message(byte) THEN parse_realtime(p, byte)
    ELSE IF byte >= 128 THEN parse_status(p, byte)
    ELSE parse_data(p, byte)

\* ------------------------------------------------------------------- state

VARIABLES
    \* environment
    wire,                \* bytes still to arrive on the UART line, oldest first
    usbWire,             \* event packets the USB host will still send
    usb_fifo,            \* packets received by the USB stack, not yet read
    mounted,             \* tud_mounted()
    delays,              \* the delays (us) the environment may add to a step
    \* midi_uart.c
    s_rx_buffer, s_rx_head, s_rx_tail,
    s_parser_state, s_running_status, s_current_msg, s_expected_data_bytes,
    s_message_ready, s_message_queue, s_message_callback,
    uart_rx_count, s_message_count, s_error_count, uart_initialized,
    \* mode_mgb.c
    s_config, s_active, s_forward_count, s_drop_count,
    sinceStamp,          \* now - s_last_byte_time, saturating at the delay
    \* gb_link.c
    link_initialized, link_tx_count,
    \* usb_midi.c
    usb_initialized, usb_rx_callback, usb_rx_count, usb_tx_count,
    \* real-time loop: main() and mode_mgb_process()
    rt_pc,               \* position of core 0
    msg,                 \* the local msg of mode_mgb_process
    txq,                 \* bytes forward_message_to_mgb has still to send
    \* history, read by the properties only
    rxLog,               \* bytes read from the UART by on_uart_rx
    dropLog,             \* positions in rxLog of the bytes dropped on overflow
    fedLog,              \* bytes handed to parse_byte
    emitLog,             \* messages completed by the parser
    lastEmit,            \* messages completed by the latest parse_byte call
    usbOffered,          \* messages passed to usb_midi_send_message
    usbTxLog,            \* packets written to the host
    usbDecoded,          \* messages the USB decoder handed to the rx callback
    usbParsed,           \* <<packet, record>> of each parse_usb_midi_packet call
    linkLog,             \* bytes enqueued to the Link Sink
    dinExpect,           \* remapped bytes of the forwardable DIN messages
    usbExpect,           \* remapped bytes of the forwardable USB messages
    sinceEnq,            \* time since the latest Link enqueue completed
    lastGap,             \* time between the two latest enqueue completions
    linkMark, fwdMark,   \* Len(linkLog), s_forward_count when msg was fetched
    s_led_on,            \* led.c
    s_auto_off_pending,
    s_blinking,
    led_off_due,         \* time_reached(s_off_time)
    c1_pc,               \* position of core1_main
    ledReads, ledWrites, \* <<execution unit, variable of led.c>> accessed
    cfgOp                \* the latest operation on s_config

envVars == <<wire, usbWire, usb_fifo, mounted, delays>>

ringVars == <<s_rx_buffer, s_rx_head, s_rx_tail>>

parserVars == <<s_parser_state, s_running_status, s_current_msg,
                s_expected_data_bytes, s_message_ready, s_message_queue,
                s_message_count>>

uartVars == <<s_message_callback, uart_rx_count, s_error_count,
              uart_initialized>>

modeVars == <<s_config, s_active, s_forward_count, s_drop_count>>

linkVars == <<link_initialized, link_tx_count, linkLog>>

usbVars == <<usb_initialized, usb_rx_callback, usb_rx_count, usb_tx_count>>

loopVars == <<rt_pc, msg, txq, linkMark, fwdMark>>

timeVars == <<sinceStamp, sinceEnq, lastGap>>

isrLogs == <<rxLog, dropLog>>

parseLogs == <<fedLog, emitLog, lastEmit, usbOffered, usbTxLog, dinExpect>>

usbLogs == <<usbDecoded, usbParsed, usbExpect>>

ledVars == <<s_led_on, s_auto_off_pending, s_blinking, led_off_due,
             ledReads, ledWrites>>

vars == <<envVars, ringVars, parserVars, uartVars, modeVars, linkVars,
          usbVars, loopVars, timeVars, isrLogs, parseLogs, usbLogs,
          ledVars, c1_pc, cfgOp>>

\* --------------------------------------------------------------- mode_mgb.c

\* mode_mgb_config_t as the C runtime zero-initialises it
ZeroConfig ==
    [midi_to_mgb_channel |-> [i \in 0..15 |-> 0],
     channel_enabled |-> [i \in 0..(MGB_CHANNEL_COUNT - 1) |-> FALSE]]

\* the configuration apply_default_config writes
DefaultConfig ==
    [midi_to_mgb_channel |->
         [i \in 0..15 |-> IF i < MGB_CHANNEL_COUNT THEN i ELSE 255],
     channel_enabled |-> [i \in 0..(MGB_CHANNEL_COUNT - 1) |-> TRUE]]

\* a reset that leaves the enable flags as they are
apply_default_config_KeepEnables(cfg) ==
    [cfg EXCEPT !.midi_to_mgb_channel =
         [i \in 0..15 |-> IF i < MGB_CHANNEL_COUNT THEN i ELSE 255]]

\* apply_default_config() on s_config = cfg: both loops
apply_default_config(cfg) ==
    [cfg EXCEPT !.midi_to_mgb_channel =
                    [i \in 0..15 |-> IF i < MGB_CHANNEL_COUNT THEN i ELSE 255],
                !.channel_enabled =
                    [i \in 0..(MGB_CHANNEL_COUNT - 1) |-> TRUE]]

\* a mode_mgb_set_config that copies whatever the pointer is
set_config_CopyAlways(cfg, isNull, config) == config

\* mode_mgb_set_config: s_config after the call; config is what the
\* pointer refers to when it is not NULL
set_config(cfg, isNull, config) == IF isNull THEN cfg ELSE config

\* a configuration a caller of mode_mgb_set_config may install: channel 0
\* goes to WAV, channel 1 to the disabled PU2, channel 2 to the out-of-range
\* value 7, channel 5 to PU1, everything else is unmapped
AltConfig ==
    [midi_to_mgb_channel |->
         [i \in 0..15 |-> CASE i = 0 -> 2 [] i = 1 -> 1 [] i = 2 -> 7
                            [] i = 5 -> 0 [] OTHER -> 255],
     channel_enabled |-> [i \in 0..(MGB_CHANNEL_COUNT - 1) |-> i # 1]]

Configs == {DefaultConfig, AltConfig}

\* msg.type >= MIDI_MSG_NOTE_OFF && msg.type <= MIDI_MSG_PITCH_BEND
IsChannelVoice(m) ==
    m.type >= MIDI_MSG_NOTE_OFF /\ m.type <= MIDI_MSG_PITCH_BEND

\* a remap that adds the mGB channel without masking the incoming one
RemapStatus_AddChannel(raw0, mgb_channel) == raw0 + mgb_channel

\* a remap that keeps the incoming channel in the status byte
RemapStatus_KeepChannel(raw0, mgb_channel) == raw0

\* uint8_t status = (msg->raw[0] & 0xF0) | mgb_channel, mgb_channel < 5
RemapStatus(raw0, mgb_channel) == HighNibble(raw0) + mgb_channel

\* a forwarder that sends the first data byte ahead of the status byte
forward_bytes_DataFirst(cfg, m) ==
    LET mgb_channel == cfg.midi_to_mgb_channel[m.channel]
    IN IF mgb_channel >= MGB_CHANNEL_COUNT THEN <<>>
       ELSE IF ~cfg.channel_enabled[mgb_channel] THEN <<>>
       ELSE IF m.type \in {MIDI_MSG_PROGRAM_CHANGE, MIDI_MSG_CHANNEL_PRESSURE}
            THEN <<m.data1, RemapStatus(m.raw[1], mgb_channel)>>
       ELSE <<m.data1, RemapStatus(m.raw[1], mgb_channel), m.data2>>

\* the bytes forward_message_to_mgb(m) passes to send_byte_to_mgb, in order
forward_bytes(cfg, m) ==
    LET mgb_channel == cfg.midi_to_mgb_channel[m.channel]
    IN IF mgb_channel >= MGB_CHANNEL_COUNT THEN <<>>
       ELSE IF ~cfg.channel_enabled[mgb_channel] THEN <<>>
       ELSE LET status == RemapStatus(m.raw[1], mgb_channel)
            IN CASE m.type \in {MIDI_MSG_NOTE_OFF, MIDI_MSG_NOTE_ON,
                                MIDI_MSG_POLY_PRESSURE, MIDI_MSG_CONTROL_CHANGE,
                                MIDI_MSG_PITCH_BEND} ->
                        <<status, m.data1, m.data2>>
                 [] m.type \in {MIDI_MSG_PROGRAM_CHANGE,
                                MIDI_MSG_CHANNEL_PRESSURE} ->
                        <<status, m.data1>>
                 [] OTHER -> <<>>

\* a loop step that forwards a message of any kind with three bytes
LinkBytesOf_AnyKind(cfg, m) ==
    LET mgb_channel == cfg.midi_to_mgb_channel[m.channel]
    IN IF mgb_channel >= MGB_CHANNEL_COUNT THEN <<>>
       ELSE <<RemapStatus(m.raw[1], mgb_channel), m.data1, m.data2>>

\* what the pipeline owes the Link Sink for a message: mode_mgb_process
\* forwards channel-voice messages only
LinkBytesOf(cfg, m) == IF IsChannelVoice(m) THEN forward_bytes(cfg, m) ELSE <<>>

\* times are kept relative and saturate here
TimeCap == MGB_INTER_BYTE_DELAY_US

\* a send_byte_to_mgb that reads the clock for s_last_byte_time before the
\* blocking enqueue instead of after it
send_byte_timing_StampFirst(stamp, enq, pre, block, late) ==
    LET elapsed_us == Min(stamp + pre, TimeCap)
        sleep == IF elapsed_us < MGB_INTER_BYTE_DELAY_US
                 THEN MGB_INTER_BYTE_DELAY_US - elapsed_us
                 ELSE 0
    IN [gap |-> Min(enq + pre + sleep + block, TimeCap),
        sinceEnq |-> late,
        sinceStamp |-> Min(block + late, TimeCap)]

\* send_byte_to_mgb, timing only.  pre: time since the previous step; block:
\* duration of the blocking enqueue (with any oversleep of sleep_us); late:
\* time between the return of the enqueue and the get_absolute_time() that
\* follows.  gap is the time from the previous enqueue completion to this one.
send_byte_timing(stamp, enq, pre, block, late) ==
    LET elapsed_us == Min(stamp + pre, TimeCap)
        sleep == IF elapsed_us < MGB_INTER_BYTE_DELAY_US
                 THEN MGB_INTER_BYTE_DELAY_US - elapsed_us
                 ELSE 0
    IN [gap |-> Min(enq + pre + sleep + block, TimeCap),
        sinceEnq |-> late,
        sinceStamp |-> 0]

\* ---------------------------------------------------------------- usb_midi.c

parse_usb_midi_packet(packet) ==
    LET code_index == LowNibble(packet[1])
        raw0 == packet[2]
    IN CASE code_index \in {2, 6, 12, 13} ->
                Message(get_message_type(raw0), LowNibble(raw0), packet[3], 0,
                        raw0, packet[3], packet[4], 2)
         [] code_index \in {3, 8, 9, 10, 11, 14} ->
                Message(get_message_type(raw0), LowNibble(raw0), packet[3],
                        packet[4], raw0, packet[3], packet[4], 3)
         [] code_index \in {5, 15} ->
                Message(get_message_type(raw0), 0, 0, 0,
                        raw0, packet[3], packet[4], 1)
         [] OTHER ->
                Message(MIDI_MSG_NONE, 0, 0, 0, raw0, packet[3], packet[4], 0)

\* an encoder that gives Song Select the three-byte system-common code
get_usb_midi_code_index_SongSelect3(m) ==
    CASE m.type = MIDI_MSG_NOTE_OFF -> 8
      [] m.type = MIDI_MSG_NOTE_ON -> 9
      [] m.type = MIDI_MSG_POLY_PRESSURE -> 10
      [] m.type = MIDI_MSG_CONTROL_CHANGE -> 11
      [] m.type = MIDI_MSG_PROGRAM_CHANGE -> 12
      [] m.type = MIDI_MSG_CHANNEL_PRESSURE -> 13
      [] m.type = MIDI_MSG_PITCH_BEND -> 14
      [] m.type = MIDI_MSG_SYSEX_START -> 4
      [] m.type = MIDI_MSG_SYSEX_END -> 5
      [] m.type = MIDI_MSG_MTC_QUARTER -> 2
      [] m.type = MIDI_MSG_SONG_POSITION -> 3
      [] m.type = MIDI_MSG_SONG_SELECT -> 3
      [] m.type = MIDI_MSG_TUNE_REQUEST -> 5
      [] m.type \in {MIDI_MSG_CLOCK, MIDI_MSG_START, MIDI_MSG_CONTINUE,
                     MIDI_MSG_STOP, MIDI_MSG_ACTIVE_SENSING,
                     MIDI_MSG_SYSTEM_RESET} -> 15
      [] OTHER -> 0

get_usb_midi_code_index(m) ==
    CASE m.type = MIDI_MSG_NOTE_OFF -> 8
      [] m.type = MIDI_MSG_NOTE_ON -> 9
      [] m.type = MIDI_MSG_POLY_PRESSURE -> 10
      [] m.type = MIDI_MSG_CONTROL_CHANGE -> 11
      [] m.type = MIDI_MSG_PROGRAM_CHANGE -> 12
      [] m.type = MIDI_MSG_CHANNEL_PRESSURE -> 13
      [] m.type = MIDI_MSG_PITCH_BEND -> 14
      [] m.type = MIDI_MSG_SYSEX_START -> 4
      [] m.type = MIDI_MSG_SYSEX_END -> 5
      [] m.type = MIDI_MSG_MTC_QUARTER -> 2
      [] m.type = MIDI_MSG_SONG_POSITION -> 3
      [] m.type = MIDI_MSG_SONG_SELECT -> 2
      [] m.type = MIDI_MSG_TUNE_REQUEST -> 5
      [] m.type \in {MIDI_MSG_CLOCK, MIDI_MSG_START, MIDI_MSG_CONTINUE,
                     MIDI_MSG_STOP, MIDI_MSG_ACTIVE_SENSING,
                     MIDI_MSG_SYSTEM_RESET} -> 15
      [] OTHER -> 0

\* the packet usb_midi_send_message builds for m
usb_packet_of(m) ==
    <<get_usb_midi_code_index(m),
      m.raw[1],
      IF m.length > 1 THEN m.raw[2] ELSE 0,
      IF m.length > 2 THEN m.raw[3] ELSE 0>>

\* a sender that counts a packet the host queue refused
usb_midi_send_message_CountAlways(m) ==
    /\ usbOffered' = Append(usbOffered, m)
    /\ IF ~usb_initialized \/ ~mounted \/ m.length = 0
       THEN UNCHANGED <<usbTxLog, usb_tx_count>>
       ELSE /\ usb_tx_count' = usb_tx_count + 1
            /\ \E written \in BOOLEAN :
                  usbTxLog' = IF written
                              THEN Append(usbTxLog, usb_packet_of(m))
                              ELSE usbTxLog

\* usb_midi_send_message(m); tud_midi_packet_write may refuse the packet
usb_midi_send_message(m) ==
    /\ usbOffered' = Append(usbOffered, m)
    /\ IF ~usb_initialized \/ ~mounted \/ m.length = 0
       THEN UNCHANGED <<usbTxLog, usb_tx_count>>
       ELSE \E written \in BOOLEAN :
                IF written
                THEN /\ usbTxLog' = Append(usbTxLog, usb_packet_of(m))
                     /\ usb_tx_count' = usb_tx_count + 1
                ELSE UNCHANGED <<usbTxLog, usb_tx_count>>

\* a callback that mirrors channel-voice messages only
on_midi_message_VoiceOnly(m) ==
    IF IsChannelVoice(m) THEN usb_midi_send_message(m)
    ELSE UNCHANGED <<usbOffered, usbTxLog, usb_tx_count>>

\* the DIN message callback of mode_mgb.c
on_midi_message(m) == usb_midi_send_message(m)

\* -------------------------------------------------------------------- inputs

\* all byte streams over alphabet of length 0..n
Streams(alphabet, n) == UNION {[1..k -> alphabet] : k \in 0..n}

\* the literal end-to-end scenarios of the specification
ScenarioS1 == <<144, 60, 64, 62, 80>>
ScenarioS2 == <<145, 64, 0>>
ScenarioS3 == <<178, 7, 127, 248, 9, 100>>
ScenarioS4 == <<149, 64, 96>>

\* NoteOn, then a zero-velocity NoteOn under running status
ScenarioRunningZero == <<145, 60, 64, 60, 0>>

Scenarios ==
    {ScenarioS1, ScenarioS2, ScenarioS3, ScenarioS4, ScenarioRunningZero}

\* NoteOn on channels 0, 1 and 5, a key (also a velocity), velocity 0, Clock
PipelineBytes == {144, 145, 149, 60, 0, 248}

PipelineWires == Streams(PipelineBytes, MaxWire) \cup Scenarios

\* host packets: NoteOn ch 0 (code index 9), Clock (code index 15)
UsbPackets == {<<9, 144, 60, 64>>, <<15, 248, 0, 0>>}

UsbWires == Streams(UsbPackets, MaxUsb)

\* one byte of each class the parser tells apart: data (zero and nonzero),
\* channel-voice status with two and with one data byte, SysEx start, a
\* system-common status without data, SysEx end, real-time
ParserBytes == {0, 64, 145, 194, 240, 246, 247, 248}

\* ProgramChange, then NoteOn with a Clock inside its second data pair
ScenarioRunningRT == <<194, 5, 145, 60, 64, 62, 248, 0>>

\* a NoteOn after a message cut short in Data1 and in Data2, after an
\* unterminated SysEx and after stray data bytes
ResyncWires ==
    {junk \o <<145, 62, 80>> :
        junk \in {<<194>>, <<145, 60>>, <<145, 60, 64, 61>>,
                  <<240, 1, 2>>, <<0, 64>>}}

ParserWires ==
    Streams(ParserBytes, MaxParse) \cup Scenarios \cup {ScenarioRunningRT}
       \cup ResyncWires

\* scenario S5: ten Active Sensing bytes
ScenarioS5 == [i \in 1..10 |-> 254]

\* messages of every kind: real-time, system-common with and without data
\* bytes, an undefined status byte (kind None), and channel-voice
KindWires ==
    {ScenarioS5,
     <<246, 145, 60, 64, 248>>,
     <<242, 1, 2, 144, 60, 64>>,
     <<244, 250, 241, 5>>}

\* a stream of n bytes with pairwise distinct values: NoteOn on channel 0,
\* then the data bytes 1, 2, 3, ...
RingWire(n) == [i \in 1..n |-> IF i = 1 THEN 144 ELSE i - 1]

\* long enough to overrun the ring twice
RingWireLen == MIDI_RX_BUFFER_SIZE + 2

\* delays of the timed environment: none, less than and equal to the
\* inter-byte delay
PaceDelays == {0, 200, MGB_INTER_BYTE_DELAY_US}

\* ---------------------------------------------------------------------- Init
\* Power-on: every static of the firmware is zero-initialised, core 0 is in
\* main() before mode_mgb_init().

InitWith(wires, usbWires, mountedStates, delaySet) ==
    /\ wire \in wires
    /\ usbWire \in usbWires
    /\ usb_fifo = <<>>
    /\ mounted \in mountedStates
    /\ delays = delaySet
    /\ s_rx_buffer = [i \in 0..(MIDI_RX_BUFFER_SIZE - 1) |-> 0]
    /\ s_rx_head = 0
    /\ s_rx_tail = 0
    /\ s_parser_state = PARSER_IDLE
    /\ s_running_status = 0
    /\ s_current_msg = ZeroMessage
    /\ s_expected_data_bytes = 0
    /\ s_message_ready = FALSE
    /\ s_message_queue = ZeroMessage
    /\ s_message_callback = "NULL"
    /\ uart_rx_count = 0
    /\ s_message_count = 0
    /\ s_error_count = 0
    /\ uart_initialized = FALSE
    /\ s_config = ZeroConfig
    /\ s_active = FALSE
    /\ s_forward_count = 0
    /\ s_drop_count = 0
    /\ sinceStamp = TimeCap
    /\ link_initialized = FALSE
    /\ link_tx_count = 0
    /\ usb_initialized = FALSE
    /\ usb_rx_callback = "NULL"
    /\ usb_rx_count = 0
    /\ usb_tx_count = 0
    /\ rt_pc = "boot"
    /\ msg = ZeroMessage
    /\ txq = <<>>
    /\ rxLog = <<>>
    /\ dropLog = <<>>
    /\ fedLog = <<>>
    /\ emitLog = <<>>
    /\ lastEmit = <<>>
    /\ usbOffered = <<>>
    /\ usbTxLog = <<>>
    /\ usbDecoded = <<>>
    /\ usbParsed = <<>>
    /\ linkLog = <<>>
    /\ dinExpect = <<>>
    /\ usbExpect = <<>>
    /\ sinceEnq = TimeCap
    /\ lastGap = TimeCap
    /\ linkMark = 0
    /\ fwdMark = 0
    /\ s_led_on = FALSE
    /\ s_auto_off_pending = FALSE
    /\ s_blinking = FALSE
    /\ led_off_due = FALSE
    /\ c1_pc = "off"
    /\ ledReads = {}
    /\ ledWrites = {}
    /\ cfgOp = "none"

Init == InitWith(PipelineWires, {<<>>}, BOOLEAN, {0})

\* ------------------------------------------------------------------- actions

\* main(): mode_mgb_init() from Inactive.  gb_link_init fails when no PIO
\* state machine or program space is free (linkOk = FALSE); midi_uart_init and
\* usb_midi_init always succeed.  On failure main() blinks the LED forever;
\* on success it waits for the two-blink pattern to end and launches
\* core1_main before it enters its loop.
mode_mgb_init(linkOk) ==
    /\ rt_pc = "boot"
    /\ ~s_active
    /\ s_config' = apply_default_config(s_config)
    /\ cfgOp' = "init"
    /\ c1_pc' = IF linkOk THEN "led" ELSE "off"
    /\ IF ~linkOk
       THEN /\ rt_pc' = "halt"
            /\ UNCHANGED <<s_active, s_forward_count, s_drop_count,
                           ringVars, parserVars, uartVars, linkVars, usbVars,
                           timeVars>>
       ELSE /\ link_tx_count' = 0
            /\ link_initialized' = TRUE
            /\ s_rx_head' = 0
            /\ s_rx_tail' = 0
            /\ s_parser_state' = PARSER_IDLE
            /\ s_running_status' = 0
            /\ s_message_ready' = FALSE
            /\ uart_rx_count' = 0
            /\ s_message_count' = 0
            /\ s_error_count' = 0
            /\ uart_initialized' = TRUE
            /\ usb_rx_count' = 0
            /\ usb_tx_count' = 0
            /\ usb_initialized' = TRUE
            /\ s_message_callback' = "on_midi_message"
            /\ usb_rx_callback' = "on_usb_midi_message"
            /\ sinceStamp' = 0
            /\ s_forward_count' = 0
            /\ s_drop_count' = 0
            /\ s_active' = TRUE
            /\ rt_pc' = "idle"
            /\ UNCHANGED <<s_rx_buffer, s_current_msg, s_expected_data_bytes,
                           s_message_queue, linkLog, sinceEnq, lastGap>>
    /\ UNCHANGED <<ledVars,
                   envVars, msg, txq, linkMark, fwdMark, isrLogs, parseLogs,
                   usbLogs>>

\* midi_uart_init and usb_midi_init have no failing path: each returns true
UartInitResults == {TRUE}
UsbInitResults == {TRUE}

\* a mode_mgb_init that goes on after gb_link_init has failed
mode_mgb_init_link_IgnoreFailure(linkOk) ==
    /\ rt_pc \in {"boot", "down"}
    /\ ~s_active
    /\ s_config' = apply_default_config(s_config)
    /\ cfgOp' = "init"
    /\ link_initialized' = (link_initialized \/ linkOk)
    /\ link_tx_count' = IF link_initialized THEN link_tx_count ELSE 0
    /\ rt_pc' = "init_uart"
    /\ UNCHANGED <<ledVars, c1_pc,
                   envVars, ringVars, parserVars, uartVars, s_active,
                   s_forward_count, s_drop_count, linkLog, usbVars, msg, txq,
                   linkMark, fwdMark, timeVars, isrLogs, parseLogs, usbLogs>>

\* mode_mgb_init() from Inactive, first part: apply_default_config, then
\* gb_link_init, which returns true at once when the Link is initialised and
\* fails when no PIO state machine or program space is free
mode_mgb_init_link(linkOk) ==
    /\ rt_pc \in {"boot", "down"}
    /\ ~s_active
    /\ s_config' = apply_default_config(s_config)
    /\ cfgOp' = "init"
    /\ IF link_initialized
       THEN rt_pc' = "init_uart" /\ UNCHANGED <<link_initialized, link_tx_count>>
       ELSE IF linkOk
       THEN /\ link_tx_count' = 0
            /\ link_initialized' = TRUE
            /\ rt_pc' = "init_uart"
       ELSE rt_pc' = "halt" /\ UNCHANGED <<link_initialized, link_tx_count>>
    /\ UNCHANGED <<ledVars, c1_pc,
                   envVars, ringVars, parserVars, uartVars, s_active,
                   s_forward_count, s_drop_count, linkLog, usbVars, msg, txq,
                   linkMark, fwdMark, timeVars, isrLogs, parseLogs, usbLogs>>

\* mode_mgb_init(), second part: midi_uart_init; on failure gb_link_deinit
mode_mgb_init_uart(uartOk) ==
    /\ rt_pc = "init_uart"
    /\ IF uartOk
       THEN /\ IF uart_initialized
               THEN UNCHANGED <<s_rx_head, s_rx_tail, s_parser_state,
                                s_running_status, s_message_ready,
                                uart_rx_count, s_message_count, s_error_count,
                                uart_initialized>>
               ELSE /\ s_rx_head' = 0
                    /\ s_rx_tail' = 0
                    /\ s_parser_state' = PARSER_IDLE
                    /\ s_running_status' = 0
                    /\ s_message_ready' = FALSE
                    /\ uart_rx_count' = 0
                    /\ s_message_count' = 0
                    /\ s_error_count' = 0
                    /\ uart_initialized' = TRUE
            /\ rt_pc' = "init_usb"
            /\ UNCHANGED link_initialized
       ELSE /\ link_initialized' = FALSE
            /\ rt_pc' = "halt"
            /\ UNCHANGED <<s_rx_head, s_rx_tail, s_parser_state,
                           s_running_status, s_message_ready, uart_rx_count,
                           s_message_count, s_error_count, uart_initialized>>
    /\ UNCHANGED <<ledVars, c1_pc, cfgOp,
                   envVars, s_rx_buffer, s_current_msg, s_expected_data_bytes,
                   s_message_queue, s_message_callback, modeVars,
                   link_tx_count, linkLog, usbVars, msg, txq, linkMark,
                   fwdMark, timeVars, isrLogs, parseLogs, usbLogs>>

\* mode_mgb_init(), last part: usb_midi_init (on failure midi_uart_deinit and
\* gb_link_deinit), the two callbacks, the pacing timestamp, the statistics,
\* s_active = true
mode_mgb_init_usb(usbOk) ==
    /\ rt_pc = "init_usb"
    /\ IF usbOk
       THEN /\ usb_initialized' = TRUE
            /\ usb_rx_count' = IF usb_initialized THEN usb_rx_count ELSE 0
            /\ usb_tx_count' = IF usb_initialized THEN usb_tx_count ELSE 0
            /\ s_message_callback' = "on_midi_message"
            /\ usb_rx_callback' = "on_usb_midi_message"
            /\ sinceStamp' = 0
            /\ s_forward_count' = 0
            /\ s_drop_count' = 0
            /\ s_active' = TRUE
            /\ rt_pc' = "idle"
            /\ UNCHANGED <<uart_initialized, link_initialized>>
       ELSE /\ uart_initialized' = FALSE
            /\ link_initialized' = FALSE
            /\ rt_pc' = "halt"
            /\ UNCHANGED <<usbVars, s_message_callback, sinceStamp,
                           s_forward_count, s_drop_count, s_active>>
    /\ UNCHANGED <<ledVars, c1_pc, cfgOp,
                   envVars, ringVars, parserVars, uart_rx_count, s_error_count,
                   s_config, link_tx_count, linkLog, msg, txq, linkMark,
                   fwdMark, sinceEnq, lastGap, isrLogs, parseLogs, usbLogs>>

\* mode_mgb_deinit() while Active, first part: both callbacks cleared, then
\* midi_uart_deinit
mode_mgb_deinit_uart ==
    /\ rt_pc = "idle"
    /\ s_active
    /\ s_message_callback' = "NULL"
    /\ usb_rx_callback' = "NULL"
    /\ uart_initialized' = FALSE
    /\ rt_pc' = "deinit_link"
    /\ UNCHANGED <<ledVars, c1_pc, cfgOp,
                   envVars, ringVars, parserVars, uart_rx_count, s_error_count,
                   modeVars, linkVars, usb_initialized, usb_rx_count,
                   usb_tx_count, msg, txq, linkMark, fwdMark, timeVars,
                   isrLogs, parseLogs, usbLogs>>

\* mode_mgb_deinit(), last part: gb_link_deinit, s_active = false
mode_mgb_deinit_link ==
    /\ rt_pc = "deinit_link"
    /\ link_initialized' = FALSE
    /\ s_active' = FALSE
    /\ rt_pc' = "down"
    /\ UNCHANGED <<ledVars, c1_pc, cfgOp,
                   envVars, ringVars, parserVars, uartVars, s_config,
                   s_forward_count, s_drop_count, link_tx_count, linkLog,
                   usbVars, msg, txq, linkMark, fwdMark, timeVars, isrLogs,
                   parseLogs, usbLogs>>

\* mode_mgb_process() while Inactive: it returns at once
process_inactive ==
    /\ rt_pc \in {"down", "halt"}
    /\ ~s_active
    /\ UNCHANGED vars

\* a ring store without the overrun check
ring_put_NoCheck(buffer, head, tail, byte) ==
    [buffer |-> [buffer EXCEPT ![head] = byte],
     head |-> RingNext(head),
     overrun |-> FALSE]

\* a ring store that writes the cell before it checks for overrun
ring_put_StoreFirst(buffer, head, tail, byte) ==
    [buffer |-> [buffer EXCEPT ![head] = byte],
     head |-> IF RingNext(head) # tail THEN RingNext(head) ELSE head,
     overrun |-> RingNext(head) = tail]

\* a handler that on overrun overwrites the newest unread byte
ring_put_OverwriteNewest(buffer, head, tail, byte) ==
    LET next_head == RingNext(head)
        newest == (head + MIDI_RX_BUFFER_SIZE - 1) % MIDI_RX_BUFFER_SIZE
    IN IF next_head # tail
       THEN [buffer |-> [buffer EXCEPT ![head] = byte],
             head |-> next_head,
             overrun |-> FALSE]
       ELSE [buffer |-> [buffer EXCEPT ![newest] = byte],
             head |-> head,
             overrun |-> TRUE]

\* "Add to ring buffer": the new buffer and head, and whether the byte was
\* dropped because next_head == s_rx_tail
ring_put(buffer, head, tail, byte) ==
    LET next_head == RingNext(head)
    IN IF next_head # tail
       THEN [buffer |-> [buffer EXCEPT ![head] = byte],
             head |-> next_head,
             overrun |-> FALSE]
       ELSE [buffer |-> buffer, head |-> head, overrun |-> TRUE]

\* on_uart_rx, one received byte.  The handler loops while the UART holds
\* bytes; it runs to completion, so a burst is a run of these steps.
\* s_byte_callback is never registered by the firmware.
on_uart_rx ==
    /\ uart_initialized
    /\ wire # <<>>
    /\ LET byte == Head(wire)
       IN /\ wire' = Tail(wire)
          /\ uart_rx_count' = uart_rx_count + 1
          /\ rxLog' = Append(rxLog, byte)
          /\ LET r == ring_put(s_rx_buffer, s_rx_head, s_rx_tail, byte)
             IN /\ s_rx_buffer' = r.buffer
                /\ s_rx_head' = r.head
                /\ s_error_count' =
                       IF r.overrun THEN s_error_count + 1 ELSE s_error_count
                /\ dropLog' = IF r.overrun
                              THEN Append(dropLog, Len(rxLog) + 1)
                              ELSE dropLog
    /\ UNCHANGED <<ledVars, c1_pc, cfgOp,
                   usbWire, usb_fifo, mounted, delays, s_rx_tail, parserVars,
                   s_message_callback, uart_initialized, modeVars, linkVars,
                   usbVars, loopVars, timeVars, parseLogs, usbLogs>>

\* the USB stack (tud_task on core 1) receives one packet from the host
usb_host_packet ==
    /\ usbWire # <<>>
    /\ usb_fifo' = Append(usb_fifo, Head(usbWire))
    /\ usbWire' = Tail(usbWire)
    /\ UNCHANGED <<ledVars, c1_pc, cfgOp,
                   wire, mounted, delays, ringVars, parserVars, uartVars,
                   modeVars, linkVars, usbVars, loopVars, timeVars, isrLogs, parseLogs,
                   usbLogs>>

\* mode_mgb_set_config(config) with a non-NULL config, called between two
\* loop steps
mode_mgb_set_config(config) ==
    /\ rt_pc = "idle"
    /\ s_config' = set_config(s_config, FALSE, config)
    /\ cfgOp' = "set"
    /\ UNCHANGED <<ledVars, c1_pc,
                   envVars, ringVars, parserVars, uartVars, s_active,
                   s_forward_count, s_drop_count, linkVars, usbVars, loopVars,
                   timeVars, isrLogs, parseLogs, usbLogs>>

\* mode_mgb_set_config(NULL)
mode_mgb_set_config_null ==
    /\ rt_pc = "idle"
    /\ s_config' = set_config(s_config, TRUE, ZeroConfig)
    /\ cfgOp' = "set_null"
    /\ UNCHANGED <<ledVars, c1_pc,
                   envVars, ringVars, parserVars, uartVars, s_active,
                   s_forward_count, s_drop_count, linkVars, usbVars, loopVars,
                   timeVars, isrLogs, parseLogs, usbLogs>>

\* mode_mgb_reset_config()
mode_mgb_reset_config ==
    /\ rt_pc = "idle"
    /\ s_config' = apply_default_config(s_config)
    /\ cfgOp' = "reset"
    /\ UNCHANGED <<ledVars, c1_pc,
                   envVars, ringVars, parserVars, uartVars, s_active,
                   s_forward_count, s_drop_count, linkVars, usbVars, loopVars,
                   timeVars, isrLogs, parseLogs, usbLogs>>

\* midi_uart_reset_stats(), called between two loop steps
midi_uart_reset_stats ==
    /\ rt_pc = "idle"
    /\ uart_rx_count' = 0
    /\ s_message_count' = 0
    /\ s_error_count' = 0
    /\ UNCHANGED <<ledVars, c1_pc, cfgOp,
                   envVars, ringVars, s_parser_state, s_running_status,
                   s_current_msg, s_expected_data_bytes, s_message_ready,
                   s_message_queue, s_message_callback, uart_initialized,
                   modeVars, linkVars, usbVars, loopVars, timeVars, isrLogs,
                   parseLogs, usbLogs>>

\* a stats reset that leaves the drop counter alone
reset_forward_drop_KeepDrop(forward, drop) ==
    [forward |-> 0, drop |-> drop + forward]

\* mode_mgb_reset_stats(): the two counters after the call
reset_forward_drop(forward, drop) == [forward |-> 0, drop |-> 0]

\* mode_mgb_reset_stats(), called between two loop steps
mode_mgb_reset_stats ==
    /\ rt_pc = "idle"
    /\ LET r == reset_forward_drop(s_forward_count, s_drop_count)
       IN /\ s_forward_count' = r.forward
          /\ s_drop_count' = r.drop
    /\ UNCHANGED <<ledVars, c1_pc, cfgOp,
                   envVars, ringVars, parserVars, uartVars, s_config, s_active,
                   linkVars, usbVars, loopVars, timeVars, isrLogs, parseLogs,
                   usbLogs>>

\* mode_mgb_process(): entry.  main() calls it forever.  The local msg of
\* the call is not initialised and not read before midi_uart_get_message
\* has filled it; it starts as the zero record here.
process_begin ==
    /\ rt_pc = "idle"
    /\ s_active
    /\ rt_pc' = "uart"
    /\ msg' = ZeroMessage
    /\ UNCHANGED <<ledVars, c1_pc, cfgOp,
                   envVars, ringVars, parserVars, uartVars, modeVars,
                   linkVars, usbVars, txq, linkMark, fwdMark, timeVars,
                   isrLogs, parseLogs, usbLogs>>

ParserRec ==
    [state |-> s_parser_state, running |-> s_running_status,
     cur |-> s_current_msg, expected |-> s_expected_data_bytes,
     ready |-> s_message_ready, queue |-> s_message_queue,
     count |-> s_message_count, out |-> <<>>]

\* remapped bytes owed to the Link Sink for the messages of a sequence
RECURSIVE ExpectOf(_, _)
ExpectOf(cfg, msgs) ==
    IF msgs = <<>> THEN <<>>
    ELSE LinkBytesOf(cfg, Head(msgs)) \o ExpectOf(cfg, Tail(msgs))

\* a drain that advances the tail before it reads the cell
RingRead_AfterAdvance(buffer, tail) == buffer[RingNext(tail)]

\* uint8_t byte = s_rx_buffer[s_rx_tail], read before the tail advances
RingRead(buffer, tail) == buffer[tail]

\* midi_uart_process(): one iteration of the drain loop, with parse_byte and
\* the message callback it makes.  The interrupt writes only s_rx_head and
\* the cell at the old head, which is outside the readable range, so taking
\* the iteration as one step loses no interleaving.
uart_drain_step ==
    /\ rt_pc = "uart"
    /\ s_rx_tail # s_rx_head
    /\ LET byte == RingRead(s_rx_buffer, s_rx_tail)
           r == parse_byte(ParserRec, byte)
       IN /\ s_rx_tail' = RingNext(s_rx_tail)
          /\ s_parser_state' = r.state
          /\ s_running_status' = r.running
          /\ s_current_msg' = r.cur
          /\ s_expected_data_bytes' = r.expected
          /\ s_message_ready' = r.ready
          /\ s_message_queue' = r.queue
          /\ s_message_count' = r.count
          /\ fedLog' = Append(fedLog, byte)
          /\ emitLog' = emitLog \o r.out
          /\ lastEmit' = r.out
          /\ dinExpect' = dinExpect \o ExpectOf(s_config, r.out)
          /\ IF s_message_callback = "on_midi_message" /\ r.out # <<>>
             THEN on_midi_message(r.out[1])
             ELSE UNCHANGED <<usbOffered, usbTxLog, usb_tx_count>>
    /\ UNCHANGED <<ledVars, c1_pc, cfgOp,
                   envVars, s_rx_buffer, s_rx_head, uartVars, modeVars,
                   linkVars, usb_initialized, usb_rx_callback, usb_rx_count,
                   loopVars, timeVars, isrLogs, usbLogs>>

\* midi_uart_process(): the ring is empty, the loop ends
uart_drain_done ==
    /\ rt_pc = "uart"
    /\ s_rx_tail = s_rx_head
    /\ rt_pc' = "usb"
    /\ UNCHANGED <<ledVars, c1_pc, cfgOp,
                   envVars, ringVars, parserVars, uartVars, modeVars,
                   linkVars, usbVars, msg, txq, linkMark, fwdMark, timeVars,
                   isrLogs, parseLogs, usbLogs>>

\* usb_midi_process_rx(): one packet read, decoded and handed to the rx
\* callback; on_usb_midi_message ignores its argument
usb_rx_step ==
    /\ rt_pc = "usb"
    /\ usb_initialized
    /\ usb_fifo # <<>>
    /\ usb_fifo' = Tail(usb_fifo)
    /\ usb_rx_count' = usb_rx_count + 1
    /\ LET m == parse_usb_midi_packet(Head(usb_fifo))
       IN /\ usbParsed' = IF usb_rx_callback # "NULL"
                          THEN Append(usbParsed, <<Head(usb_fifo), m>>)
                          ELSE usbParsed
          /\ IF usb_rx_callback # "NULL" /\ m.length > 0
             THEN /\ usbDecoded' = Append(usbDecoded, m)
                  /\ usbExpect' = usbExpect \o LinkBytesOf(s_config, m)
             ELSE UNCHANGED <<usbDecoded, usbExpect>>
    /\ UNCHANGED <<ledVars, c1_pc, cfgOp,
                   wire, usbWire, mounted, delays, ringVars, parserVars,
                   uartVars, modeVars, linkVars, usb_initialized, usb_rx_callback,
                   usb_tx_count, loopVars, timeVars, isrLogs, parseLogs>>

\* usb_midi_process_rx(): nothing (more) to read
usb_rx_done ==
    /\ rt_pc = "usb"
    /\ ~usb_initialized \/ usb_fifo = <<>>
    /\ rt_pc' = "get"
    /\ UNCHANGED <<ledVars, c1_pc, cfgOp,
                   envVars, ringVars, parserVars, uartVars, modeVars,
                   linkVars, usbVars, msg, txq, linkMark, fwdMark, timeVars,
                   isrLogs, parseLogs, usbLogs>>

\* a midi_uart_get_message that never finds a message
midi_uart_get_message_NeverReady(ready, queue, out, isNull) ==
    [ret |-> FALSE, ready |-> ready, out |-> out]

\* a midi_uart_get_message that leaves the slot marked ready
midi_uart_get_message_KeepReady(ready, queue, out, isNull) ==
    IF ~ready \/ isNull
    THEN [ret |-> FALSE, ready |-> ready, out |-> out]
    ELSE [ret |-> TRUE, ready |-> ready, out |-> queue]

\* midi_uart_get_message(msg): the return value, s_message_ready and *msg
\* after the call; isNull says that the pointer is NULL
midi_uart_get_message(ready, queue, out, isNull) ==
    IF ~ready \/ isNull
    THEN [ret |-> FALSE, ready |-> ready, out |-> out]
    ELSE [ret |-> TRUE, ready |-> FALSE, out |-> queue]

\* mode_mgb_process(): while (midi_uart_get_message(&msg)), up to the first
\* send_byte_to_mgb of forward_message_to_mgb or the end of the loop step
get_message_step ==
    /\ rt_pc = "get"
    /\ LET r == midi_uart_get_message(s_message_ready, s_message_queue,
                                      msg, FALSE)
       IN /\ msg' = r.out
          /\ s_message_ready' = r.ready
          /\ IF ~r.ret
             THEN /\ rt_pc' = "idle"
                  /\ UNCHANGED <<txq, linkMark, fwdMark>>
             ELSE /\ linkMark' = Len(linkLog)
                  /\ fwdMark' = s_forward_count
                  /\ txq' = LinkBytesOf(s_config, r.out)
                  /\ rt_pc' = IF LinkBytesOf(s_config, r.out) = <<>>
                              THEN "get" ELSE "tx"
    /\ UNCHANGED <<ledVars, c1_pc, cfgOp,
                   envVars, ringVars, s_parser_state, s_running_status,
                   s_current_msg, s_expected_data_bytes, s_message_queue,
                   s_message_count, uartVars, modeVars, linkVars, usbVars,
                   timeVars, isrLogs, parseLogs, usbLogs>>

\* led_trigger_activity() called by execution unit u, taken as one step
led_trigger_activity(u) ==
    /\ ledReads' = ledReads \cup {<<u, "s_blinking">>}
    /\ IF s_blinking
       THEN UNCHANGED <<s_led_on, s_auto_off_pending, led_off_due, ledWrites>>
       ELSE /\ s_led_on' = TRUE
            /\ led_off_due' = FALSE
            /\ s_auto_off_pending' = TRUE
            /\ ledWrites' = ledWrites \cup {<<u, "s_led_on">>,
                   <<u, "s_off_time">>, <<u, "s_auto_off_pending">>}
    /\ UNCHANGED s_blinking

\* a forward_message_to_mgb that counts the message before its first byte
\* is enqueued
send_byte_step_CountFirst ==
    /\ rt_pc = "tx"
    /\ \E pre \in delays, block \in delays, late \in delays :
          LET t == send_byte_timing(sinceStamp, sinceEnq, pre, block, late)
          IN /\ sinceStamp' = t.sinceStamp
             /\ IF link_initialized
                THEN /\ linkLog' = Append(linkLog, Head(txq))
                     /\ link_tx_count' = link_tx_count + 1
                     /\ sinceEnq' = t.sinceEnq
                     /\ lastGap' = IF linkLog = <<>> THEN lastGap ELSE t.gap
                ELSE /\ sinceEnq' = Min(sinceEnq + t.gap + late, TimeCap)
                     /\ UNCHANGED <<linkLog, link_tx_count, lastGap>>
    /\ txq' = Tail(txq)
    /\ s_forward_count' = IF Len(linkLog) = linkMark
                          THEN s_forward_count + 1 ELSE s_forward_count
    /\ IF Tail(txq) = <<>>
       THEN /\ led_trigger_activity("A")
            /\ rt_pc' = "get"
       ELSE UNCHANGED <<rt_pc, ledVars>>
    /\ UNCHANGED <<c1_pc, cfgOp,
                   envVars, ringVars, parserVars, uartVars, s_config, s_active,
                   s_drop_count, link_initialized, usbVars, msg, linkMark,
                   fwdMark, isrLogs, parseLogs, usbLogs>>

\* send_byte_to_mgb(Head(txq)): pace, gb_link_send_byte_blocking, stamp; after
\* the last byte of the message s_forward_count++ (and led_trigger_activity)
send_byte_step ==
    /\ rt_pc = "tx"
    /\ \E pre \in delays, block \in delays, late \in delays :
          LET t == send_byte_timing(sinceStamp, sinceEnq, pre, block, late)
          IN /\ sinceStamp' = t.sinceStamp
             /\ IF link_initialized
                THEN /\ linkLog' = Append(linkLog, Head(txq))
                     /\ link_tx_count' = link_tx_count + 1
                     /\ sinceEnq' = t.sinceEnq
                     /\ lastGap' = IF linkLog = <<>> THEN lastGap ELSE t.gap
                ELSE /\ sinceEnq' = Min(sinceEnq + t.gap + late, TimeCap)
                     /\ UNCHANGED <<linkLog, link_tx_count, lastGap>>
    /\ txq' = Tail(txq)
    /\ IF Tail(txq) = <<>>
       THEN /\ s_forward_count' = s_forward_count + 1
            /\ led_trigger_activity("A")
            /\ rt_pc' = "get"
       ELSE UNCHANGED <<s_forward_count, rt_pc, ledVars>>
    /\ UNCHANGED <<c1_pc, cfgOp,
                   envVars, ringVars, parserVars, uartVars, s_config, s_active,
                   s_drop_count, link_initialized, usbVars, msg, linkMark,
                   fwdMark, isrLogs, parseLogs, usbLogs>>

\* the DIN pipeline: no traffic from the USB host
Next ==
    \/ \E linkOk \in BOOLEAN : mode_mgb_init(linkOk)
    \/ on_uart_rx
    \/ \E config \in Configs : mode_mgb_set_config(config)
    \/ process_begin
    \/ uart_drain_step
    \/ uart_drain_done
    \/ usb_rx_done
    \/ get_message_step
    \/ send_byte_step

Spec == Init /\ [][Next]_vars

\* the DIN pipeline with a timed environment
InitPace ==
    InitWith({ScenarioS1, ScenarioS2, ScenarioS3}, {<<>>}, {FALSE}, PaceDelays)

SpecPace == InitPace /\ [][Next]_vars

\* the ring under a burst longer than its capacity, default configuration
InitRing == InitWith({RingWire(RingWireLen)}, {<<>>}, {FALSE}, {0})

NextRing ==
    \/ \E linkOk \in BOOLEAN : mode_mgb_init(linkOk)
    \/ on_uart_rx
    \/ process_begin
    \/ uart_drain_step
    \/ uart_drain_done
    \/ usb_rx_done
    \/ get_message_step
    \/ send_byte_step

SpecRing == InitRing /\ [][NextRing]_vars

\* the interrupt handler taking a byte while the drain loop has emptied the
\* ring, so that the parser is fed the bytes one at a time
uart_rx_when_drained ==
    /\ rt_pc = "uart"
    /\ s_rx_head = s_rx_tail
    /\ on_uart_rx

\* the parser fed every byte stream over ParserBytes, byte by byte
InitParser == InitWith(ParserWires, {<<>>}, {FALSE}, {0})

NextParser ==
    \/ \E linkOk \in BOOLEAN : mode_mgb_init(linkOk)
    \/ process_begin
    \/ uart_rx_when_drained
    \/ uart_drain_step

SpecParser == InitParser /\ [][NextParser]_vars

\* the DIN pipeline fed messages of every kind, USB mounted or not
InitKinds == InitWith(KindWires, {<<>>}, BOOLEAN, {0})

SpecKinds == InitKinds /\ [][Next]_vars

\* the coordinator's lifecycle: init in its three parts, deinit, init again,
\* with the DIN pipeline running while Active
InitLife == InitWith({<<>>, ScenarioS2}, {<<>>}, {FALSE}, {0})

NextLife ==
    \/ \E linkOk \in BOOLEAN : mode_mgb_init_link(linkOk)
    \/ \E uartOk \in UartInitResults : mode_mgb_init_uart(uartOk)
    \/ \E usbOk \in UsbInitResults : mode_mgb_init_usb(usbOk)
    \/ mode_mgb_deinit_uart
    \/ mode_mgb_deinit_link
    \/ process_inactive
    \/ on_uart_rx
    \/ process_begin
    \/ uart_drain_step
    \/ uart_drain_done
    \/ usb_rx_done
    \/ get_message_step
    \/ send_byte_step

SpecLife == InitLife /\ [][NextLife]_vars

\* the pipeline with traffic from the USB host
InitUsb == InitWith({<<>>, ScenarioS2}, UsbWires, BOOLEAN, {0})

NextUsb ==
    \/ Next
    \/ usb_host_packet
    \/ usb_rx_step

SpecUsb == InitUsb /\ [][NextUsb]_vars

\* core1_main: led_update(), the test of its conditions.  s_blinking is
\* false from the launch of core 1 on: nothing calls led_blink_pattern then.
core1_led_update_check ==
    /\ c1_pc = "led"
    /\ ledReads' = ledReads \cup
          (IF s_blinking THEN {<<"B", "s_blinking">>}
           ELSE IF ~s_auto_off_pending
           THEN {<<"B", "s_blinking">>, <<"B", "s_auto_off_pending">>}
           ELSE {<<"B", "s_blinking">>, <<"B", "s_auto_off_pending">>,
                 <<"B", "s_off_time">>})
    /\ c1_pc' = IF ~s_blinking /\ s_auto_off_pending /\ led_off_due
                THEN "led_off" ELSE "usb"
    /\ UNCHANGED <<envVars, ringVars, parserVars, uartVars, modeVars,
                   linkVars, usbVars, loopVars, timeVars, isrLogs, parseLogs,
                   usbLogs, s_led_on, s_auto_off_pending, s_blinking,
                   led_off_due, ledWrites, cfgOp>>

\* core1_main: led_update(), the auto-off, first statement:
\* led_set_raw(false).  The other core runs between the two statements.
core1_led_update_off ==
    /\ c1_pc = "led_off"
    /\ s_led_on' = FALSE
    /\ ledWrites' = ledWrites \cup {<<"B", "s_led_on">>}
    /\ c1_pc' = "led_clear"
    /\ UNCHANGED <<envVars, ringVars, parserVars, uartVars, modeVars,
                   linkVars, usbVars, loopVars, timeVars, isrLogs, parseLogs,
                   usbLogs, s_auto_off_pending, s_blinking, led_off_due,
                   ledReads, cfgOp>>

\* core1_main: led_update(), the auto-off, second statement:
\* s_auto_off_pending = false
core1_led_update_clear ==
    /\ c1_pc = "led_clear"
    /\ s_auto_off_pending' = FALSE
    /\ ledWrites' = ledWrites \cup {<<"B", "s_auto_off_pending">>}
    /\ c1_pc' = "usb"
    /\ UNCHANGED <<envVars, ringVars, parserVars, uartVars, modeVars,
                   linkVars, usbVars, loopVars, timeVars, isrLogs, parseLogs,
                   usbLogs, s_led_on, s_blinking, led_off_due, ledReads,
                   cfgOp>>

\* core1_main: tud_task() and sleep_us(100); the state of the USB stack is
\* not part of the firmware's sources
core1_tud_task ==
    /\ c1_pc = "usb"
    /\ c1_pc' = "led"
    /\ UNCHANGED <<envVars, ringVars, parserVars, uartVars, modeVars,
                   linkVars, usbVars, loopVars, timeVars, isrLogs, parseLogs,
                   usbLogs, ledVars, cfgOp>>

\* LED_BLINK_DURATION_MS have passed since led_trigger_activity
led_time_reached ==
    /\ s_auto_off_pending
    /\ ~led_off_due
    /\ led_off_due' = TRUE
    /\ UNCHANGED <<envVars, ringVars, parserVars, uartVars, modeVars,
                   linkVars, usbVars, loopVars, timeVars, isrLogs, parseLogs,
                   usbLogs, s_led_on, s_auto_off_pending, s_blinking,
                   ledReads, ledWrites, c1_pc, cfgOp>>

\* a zero-velocity NoteOn on channel n followed under running status by a
\* NoteOn and a second zero-velocity NoteOn, in both orders, with and
\* without a Clock in between
ZeroRunWires ==
    UNION {{<<144 + n, 60, 0, 62, 80, 64, 0>>,
            <<144 + n, 60, 0, 62, 0, 64, 80>>,
            <<144 + n, 60, 0, 248, 62, 80>>} : n \in {0, 1, 5, 15}}

InitZeroRun == InitWith(ZeroRunWires, {<<>>}, {FALSE}, {0})

SpecZeroRun == InitZeroRun /\ [][NextParser]_vars

\* DIN streams that make the parser emit a message of every kind it can
\* emit: the seven channel-voice kinds (NoteOff both as 0x8n and as a
\* zero-velocity NoteOn), MTC quarter frame, Song Position, Song Select,
\* Tune Request, and real-time bytes, a zero-data message after a message
\* with data
RoundTripWires ==
    {<<145, 60, 0, 241, 5, 246>>,
     <<193, 5, 248, 243, 1>>,
     <<242, 1, 2, 250, 129, 1, 2>>,
     <<224, 1, 2, 208, 5, 254>>,
     <<176, 7, 100, 160, 1, 2, 246>>,
     <<159, 60, 64, 252, 62, 0>>}

InitRoundTrip == InitWith(RoundTripWires, {<<>>}, {TRUE}, {0})

SpecRoundTrip == InitRoundTrip /\ [][Next]_vars

\* the record of a lifecycle call that found nothing to do; a repeated call
\* is told from the one before it
NoopMark(op) == IF cfgOp = op THEN op \o "_again" ELSE op

NoopMarks(op) == {op, op \o "_again"}

\* a mode_mgb_init() without the test of s_active: defaults applied, the
\* pacing timestamp and the statistics reset
mode_mgb_init_active_Reinit ==
    /\ rt_pc = "idle"
    /\ s_active
    /\ cfgOp' = NoopMark("init_active")
    /\ s_config' = apply_default_config(s_config)
    /\ s_forward_count' = 0
    /\ s_drop_count' = 0
    /\ sinceStamp' = 0
    /\ UNCHANGED <<ledVars, c1_pc, envVars, ringVars, parserVars, uartVars,
                   s_active, linkVars, usbVars, loopVars, sinceEnq, lastGap,
                   isrLogs, parseLogs, usbLogs>>

\* mode_mgb_init() while Active, called between two loop steps: it returns
\* true at its first statement
mode_mgb_init_active ==
    /\ rt_pc = "idle"
    /\ s_active
    /\ cfgOp' = NoopMark("init_active")
    /\ UNCHANGED <<ledVars, c1_pc, envVars, ringVars, parserVars, uartVars,
                   modeVars, linkVars, usbVars, loopVars, timeVars, isrLogs,
                   parseLogs, usbLogs>>

\* mode_mgb_deinit() while Inactive: it returns at its first statement
mode_mgb_deinit_inactive ==
    /\ rt_pc \in {"boot", "down", "halt"}
    /\ ~s_active
    /\ cfgOp' = NoopMark("deinit_inactive")
    /\ UNCHANGED <<ledVars, c1_pc, envVars, ringVars, parserVars, uartVars,
                   modeVars, linkVars, usbVars, loopVars, timeVars, isrLogs,
                   parseLogs, usbLogs>>

\* mode_mgb_process() while Inactive, the call recorded
mode_mgb_process_inactive ==
    /\ rt_pc \in {"boot", "down", "halt"}
    /\ ~s_active
    /\ cfgOp' = NoopMark("process_inactive")
    /\ UNCHANGED <<ledVars, c1_pc, envVars, ringVars, parserVars, uartVars,
                   modeVars, linkVars, usbVars, loopVars, timeVars, isrLogs,
                   parseLogs, usbLogs>>

\* the lifecycle with every operation callable in every state
InitNoop == InitWith({ScenarioS1, ScenarioS2}, {<<>>}, {FALSE}, {0})

NextNoop ==
    \/ NextLife
    \/ mode_mgb_init_active
    \/ mode_mgb_deinit_inactive
    \/ mode_mgb_process_inactive

SpecNoop == InitNoop /\ [][NextNoop]_vars

\* midi_uart_init() statement by statement.  First the UART set-up up to
\* uart_set_irq_enables: from here on_uart_rx runs whenever a byte arrives
midi_uart_init_enable ==
    /\ rt_pc = "init_uart"
    /\ ~uart_initialized
    /\ rt_pc' = "uart_reset_head"
    /\ UNCHANGED <<ledVars, c1_pc, cfgOp, envVars, ringVars, parserVars,
                   uartVars, modeVars, linkVars, usbVars, msg, txq, linkMark,
                   fwdMark, timeVars, isrLogs, parseLogs, usbLogs>>

\* s_rx_head = 0
midi_uart_init_head ==
    /\ rt_pc = "uart_reset_head"
    /\ s_rx_head' = 0
    /\ rt_pc' = "uart_reset_tail"
    /\ UNCHANGED <<ledVars, c1_pc, cfgOp, envVars, s_rx_buffer, s_rx_tail,
                   parserVars, uartVars, modeVars, linkVars, usbVars, msg,
                   txq, linkMark, fwdMark, timeVars, isrLogs, parseLogs,
                   usbLogs>>

\* s_rx_tail = 0
midi_uart_init_tail ==
    /\ rt_pc = "uart_reset_tail"
    /\ s_rx_tail' = 0
    /\ rt_pc' = "uart_reset_state"
    /\ UNCHANGED <<ledVars, c1_pc, cfgOp, envVars, s_rx_buffer, s_rx_head,
                   parserVars, uartVars, modeVars, linkVars, usbVars, msg,
                   txq, linkMark, fwdMark, timeVars, isrLogs, parseLogs,
                   usbLogs>>

\* the reset of the parser state and of the counters, s_initialized = true,
\* return to mode_mgb_init
midi_uart_init_state ==
    /\ rt_pc = "uart_reset_state"
    /\ s_parser_state' = PARSER_IDLE
    /\ s_running_status' = 0
    /\ s_message_ready' = FALSE
    /\ uart_rx_count' = 0
    /\ s_message_count' = 0
    /\ s_error_count' = 0
    /\ uart_initialized' = TRUE
    /\ rt_pc' = "init_usb"
    /\ UNCHANGED <<ledVars, c1_pc, cfgOp, envVars, ringVars, s_current_msg,
                   s_expected_data_bytes, s_message_queue, s_message_callback,
                   modeVars, linkVars, usbVars, msg, txq, linkMark, fwdMark,
                   timeVars, isrLogs, parseLogs, usbLogs>>

\* on_uart_rx between two of the reset statements of midi_uart_init: the
\* interrupt is enabled, s_initialized is not yet set
on_uart_rx_in_init ==
    /\ rt_pc \in {"uart_reset_head", "uart_reset_tail", "uart_reset_state"}
    /\ wire # <<>>
    /\ LET byte == Head(wire)
       IN /\ wire' = Tail(wire)
          /\ uart_rx_count' = uart_rx_count + 1
          /\ rxLog' = Append(rxLog, byte)
          /\ LET r == ring_put(s_rx_buffer, s_rx_head, s_rx_tail, byte)
             IN /\ s_rx_buffer' = r.buffer
                /\ s_rx_head' = r.head
                /\ s_error_count' =
                       IF r.overrun THEN s_error_count + 1 ELSE s_error_count
                /\ dropLog' = IF r.overrun
                              THEN Append(dropLog, Len(rxLog) + 1)
                              ELSE dropLog
    /\ UNCHANGED <<ledVars, c1_pc, cfgOp,
                   usbWire, usb_fifo, mounted, delays, s_rx_tail, parserVars,
                   s_message_callback, uart_initialized, modeVars, linkVars,
                   usbVars, loopVars, timeVars, parseLogs, usbLogs>>

\* power-on with a MIDI device already sending on the DIN input
InitUartInit == InitWith({ScenarioS1, ScenarioS2}, {<<>>}, {FALSE}, {0})

NextUartInit ==
    \/ \E linkOk \in BOOLEAN : mode_mgb_init_link(linkOk)
    \/ midi_uart_init_enable
    \/ midi_uart_init_head
    \/ midi_uart_init_tail
    \/ midi_uart_init_state
    \/ on_uart_rx_in_init
    \/ \E usbOk \in UsbInitResults : mode_mgb_init_usb(usbOk)
    \/ on_uart_rx
    \/ process_begin
    \/ uart_drain_step
    \/ uart_drain_done
    \/ usb_rx_done
    \/ get_message_step
    \/ send_byte_step

SpecUartInit == InitUartInit /\ [][NextUartInit]_vars

\* configurations with arbitrary octets in the map: every channel to one
\* value (in range, the last in range, the first out of range, bit 7 set,
\* 0xFF), a map that reverses the channel numbers, and every enable flag
\* true, false, or true for even channels
AnyConfigs ==
    {[midi_to_mgb_channel |-> map, channel_enabled |-> en] :
        map \in {[i \in 0..15 |-> v] : v \in {0, 4, 5, 128, 255}}
                   \cup {[i \in 0..15 |-> 15 - i]},
        en \in {[i \in 0..(MGB_CHANNEL_COUNT - 1) |-> TRUE],
                [i \in 0..(MGB_CHANNEL_COUNT - 1) |-> FALSE],
                [i \in 0..(MGB_CHANNEL_COUNT - 1) |-> i % 2 = 0]}}

\* NoteOn on channel 15 with a zero-velocity NoteOn under running status;
\* ProgramChange on channel 11 and PitchBend on channel 12; NoteOff on
\* channel 0 with a Clock inside and a system-common message after it
AnyConfigWires ==
    {<<159, 60, 64, 62, 0>>,
     <<203, 5, 236, 1, 2>>,
     <<128, 60, 248, 64, 242, 1, 2>>}

InitAnyConfig == InitWith(AnyConfigWires, {<<>>}, {TRUE}, {0})

NextAnyConfig ==
    \/ Next
    \/ \E config \in AnyConfigs : mode_mgb_set_config(config)

SpecAnyConfig == InitAnyConfig /\ [][NextAnyConfig]_vars

\* the interrupt handler taking a byte between two loop steps only
uart_rx_between_steps ==
    /\ rt_pc = "idle"
    /\ on_uart_rx

\* a step of mode_mgb_process
LoopStep ==
    \/ process_begin
    \/ uart_drain_step
    \/ uart_drain_done
    \/ usb_rx_step
    \/ usb_rx_done
    \/ get_message_step
    \/ send_byte_step

\* loop steps during which no UART byte arrives; the host sends a finite
\* number of packets
InitStep ==
    InitWith({ScenarioS1, ScenarioS3, ScenarioS4},
             {<<>>, <<<<9, 144, 60, 64>>, <<15, 248, 0, 0>>>>}, {TRUE}, {0})

NextStep ==
    \/ \E linkOk \in BOOLEAN : mode_mgb_init(linkOk)
    \/ uart_rx_between_steps
    \/ usb_host_packet
    \/ LoopStep

\* core 0 keeps executing its loop, and gb_link_send_byte_blocking returns:
\* the Link serializer frees FIFO space
SpecStep == InitStep /\ [][NextStep]_vars /\ WF_vars(LoopStep)

\* the scenarios of the specification with the statistics API called
\* between loop steps
InitStats == InitWith(Scenarios, {<<>>}, {TRUE}, {0})

NextStats ==
    \/ Next
    \/ midi_uart_reset_stats
    \/ mode_mgb_reset_stats

SpecStats == InitStats /\ [][NextStats]_vars

\* the configuration API called between loop steps, with DIN and USB input
InitConfig ==
    InitWith({ScenarioS1, ScenarioS2}, {<<>>, <<<<9, 144, 60, 64>>>>},
             {TRUE}, {0})

NextConfig ==
    \/ NextUsb
    \/ mode_mgb_set_config_null
    \/ mode_mgb_reset_config

SpecConfig == InitConfig /\ [][NextConfig]_vars

\* two forwarded messages (S1) or one (S4), both execution units running
InitCores == InitWith({ScenarioS1, ScenarioS4}, {<<>>}, {TRUE}, {0})

NextCores ==
    \/ Next
    \/ core1_led_update_check
    \/ core1_led_update_off
    \/ core1_led_update_clear
    \/ core1_tud_task
    \/ led_time_reached

SpecCores == InitCores /\ [][NextCores]_vars

\* DIN streams for the USB encoder: the real-time bytes 0xF9 and 0xFD that
\* MIDI leaves undefined, channel-voice messages with one and two data
\* bytes, system-common messages with zero, one and two data bytes, and the
\* undefined status 0xF4
EncodeWires ==
    {<<249, 145, 60, 64>>,
     <<193, 5, 248, 243, 1>>,
     <<242, 1, 2, 246, 253>>,
     <<244, 129, 1, 2>>}

InitEncode == InitWith(EncodeWires, {<<>>}, {TRUE}, {0})

SpecEncode == InitEncode /\ [][Next]_vars

\* payloads of a host packet: NoteOn, ProgramChange, SysEx start, SysEx
\* end, Song Position, Clock, a data byte in the status position, a NoteOn
\* whose data bytes have bit 7 set
DecodePayloads ==
    {<<144, 60, 64>>, <<193, 5, 0>>, <<240, 126, 0>>, <<1, 2, 247>>,
     <<242, 1, 2>>, <<248, 0, 0>>, <<60, 64, 0>>, <<145, 200, 129>>}

\* every code index on cable 0, and one packet on cable 1
DecodePackets ==
    {<<cin>> \o p : cin \in 0..15, p \in DecodePayloads}
       \cup {<<16 + 9, 144, 60, 64>>}

\* the USB decoder on one host packet, the DIN input silent or carrying S2
InitDecode ==
    InitWith({<<>>, ScenarioS2}, {<<p>> : p \in DecodePackets}, {TRUE}, {0})

SpecDecode == InitDecode /\ [][NextUsb]_vars

\* ---------------------------------------------------------------- properties

\* s is a subsequence of t: the elements of s occur in t in the same order
RECURSIVE IsSubSeq(_, _)
IsSubSeq(s, t) ==
    IF s = <<>> THEN TRUE
    ELSE IF t = <<>> THEN FALSE
    ELSE IF Head(s) = Head(t) THEN IsSubSeq(Tail(s), Tail(t))
    ELSE IsSubSeq(s, Tail(t))

\* the bytes enqueued to the Link Sink since msg was fetched
LinkSinceFetch == SubSeq(linkLog, linkMark + 1, Len(linkLog))

\* every byte sent on the UART line has been parsed or dropped, the loop
\* step that parsed the last one has ended
DinQuiescent ==
    /\ rt_pc = "idle"
    /\ wire = <<>>
    /\ s_rx_head = s_rx_tail
    /\ ~s_message_ready

\* C1: every channel-voice message the DIN parser emits on a mapped, enabled
\* channel is emitted to the Link Sink as one remapped message: once all
\* input is consumed and the loop step has ended, the remapped bytes of those
\* messages all occur, in order, in the Link byte stream.
C1_DinMessagesReachLink == DinQuiescent => IsSubSeq(dinExpect, linkLog)

\* C2: a NoteOn (0x90|c) kk vv handed to the forwarder with map[c] = m < 5
\* and enabled[m] puts exactly (0x90|m) kk vv on the Link Sink and counts one
\* forward; with map[c] unmapped or enabled[m] false it puts nothing there
\* and leaves the forward counter alone; either way the message was offered
\* to the USB sender.
C2_ChannelRemap ==
    (/\ rt_pc = "get"
     /\ msg.type = MIDI_MSG_NOTE_ON
     /\ msg.raw[1] = 144 + msg.channel)
    => LET m == s_config.midi_to_mgb_channel[msg.channel]
       IN /\ IF m \in 0..4 /\ s_config.channel_enabled[m]
             THEN /\ LinkSinceFetch = <<144 + m, msg.raw[2], msg.raw[3]>>
                  /\ s_forward_count = fwdMark + 1
             ELSE /\ LinkSinceFetch = <<>>
                  /\ s_forward_count = fwdMark
          /\ \E i \in 1..Len(usbOffered) : usbOffered[i] = msg

\* C2 witness: a NoteOn on channel 0 was remapped to mGB channel 2
C2_Witness ==
    /\ rt_pc = "get"
    /\ msg.type = MIDI_MSG_NOTE_ON
    /\ msg.channel = 0
    /\ s_config.midi_to_mgb_channel[0] = 2
    /\ LinkSinceFetch = <<146, 60, 60>>

\* C3: any two consecutive enqueues to the Link Sink complete at least
\* MGB_INTER_BYTE_DELAY_US apart, within a message and across messages,
\* whatever the enqueue blocks for; s_last_byte_time is read after the
\* enqueue has returned.
C3_InterByteSpacing ==
    /\ lastGap >= MGB_INTER_BYTE_DELAY_US
    /\ linkLog # <<>> => sinceStamp <= sinceEnq

\* C3 witness: bytes of two messages were enqueued, the last time stamp was
\* taken some time after its enqueue returned
C3_Witness ==
    /\ Len(linkLog) >= 4
    /\ sinceEnq > 0
    /\ lastGap >= MGB_INTER_BYTE_DELAY_US

\* the host has sent everything, the loop step that read the last packet
\* has ended
UsbQuiescent ==
    /\ DinQuiescent
    /\ usbWire = <<>>
    /\ usb_fifo = <<>>

\* C4: a channel-voice message decoded from a USB packet on a mapped,
\* enabled channel is emitted to the Link Sink with the remapped status: once
\* every packet is read and the loop step has ended, the remapped bytes of
\* those messages occur, in order, in the Link byte stream.
C4_UsbMessagesReachLink == UsbQuiescent => IsSubSeq(usbExpect, linkLog)

\* drop the real-time bytes of a stream
StripRT(stream) == SelectSeq(stream, LAMBDA b : ~is_realtime_message(b))

\* the position of the NoteOn status byte that governs the end of d, when d
\* ends with that status, then a whole number of data pairs; 0 otherwise
NoteOnGroupStart(d) ==
    LET starts == {i \in 1..Len(d) :
                      /\ d[i] \in 144..159
                      /\ \A j \in (i + 1)..Len(d) : d[j] < 128
                      /\ Len(d) - i >= 2
                      /\ (Len(d) - i) % 2 = 0}
    IN IF starts = {} THEN 0 ELSE CHOOSE i \in starts : TRUE

\* C5: an input 0x9n kk 00, with the status explicit or running, makes the
\* parser emit exactly one message NoteOff, channel n, data1 kk, data2 0,
\* raw[0] = 0x80|n; when this is the whole input and n maps to the enabled
\* mGB channel m, the Link Sink receives exactly (0x80|m) kk 00.
C5_ZeroVelocityNoteOff ==
    LET d == StripRT(fedLog)
        i == NoteOnGroupStart(d)
        n == d[i] - 144
        kk == d[Len(d) - 1]
        m == s_config.midi_to_mgb_channel[n]
    IN (fedLog # <<>> /\ fedLog[Len(fedLog)] = 0 /\ i # 0) =>
          /\ lastEmit = <<Message(MIDI_MSG_NOTE_OFF, n, kk, 0, 128 + n, kk, 0, 3)>>
          /\ (/\ rt_pc = "get"
              /\ Len(fedLog) = 3
              /\ msg # ZeroMessage
              /\ m \in 0..4
              /\ s_config.channel_enabled[m])
             => linkLog = <<128 + m, kk, 0>>

\* C5 witness: scenario S2 went through to the Link Sink
C5_Witness ==
    /\ rt_pc = "get"
    /\ fedLog = ScenarioS2
    /\ lastEmit = <<Message(MIDI_MSG_NOTE_OFF, 1, 64, 0, 129, 64, 0, 3)>>
    /\ linkLog = <<129, 64, 0>>

Range(seq) == {seq[i] : i \in 1..Len(seq)}

\* the bytes the interrupt handler read, without those it dropped on overrun
Accepted ==
    LET kept == SelectSeq([i \in 1..Len(rxLog) |-> i],
                          LAMBDA i : i \notin Range(dropLog))
    IN [k \in 1..Len(kept) |-> rxLog[kept[k]]]

\* (head - tail) mod N
Readable == (s_rx_head - s_rx_tail + MIDI_RX_BUFFER_SIZE) % MIDI_RX_BUFFER_SIZE

\* C7: the bytes fed to the parser are the arrival sequence without the
\* bytes dropped on overrun: in arrival order, each accepted byte once (those
\* still in the ring are the next ones, in order), no dropped byte ever.
C7_RingDelivery ==
    /\ Len(fedLog) <= Len(Accepted)
    /\ fedLog = SubSeq(Accepted, 1, Len(fedLog))
    /\ s_rx_head = s_rx_tail => fedLog = Accepted
    /\ \A k \in 1..Readable :
          /\ Len(fedLog) + k <= Len(Accepted)
          /\ s_rx_buffer[(s_rx_tail + k - 1) % MIDI_RX_BUFFER_SIZE]
                = Accepted[Len(fedLog) + k]
    /\ \A k \in 1..Len(dropLog) : rxLog[dropLog[k]] \notin Range(fedLog)

\* C7 witness: a byte was dropped, the ring has wrapped and everything
\* accepted has been fed to the parser
C7_Witness ==
    /\ dropLog # <<>>
    /\ Len(fedLog) > MIDI_RX_BUFFER_SIZE
    /\ fedLog = Accepted
    /\ wire = <<>>

\* C8: (head - tail) mod N is the number of bytes accepted and not yet fed to
\* the parser, it never exceeds N - 1, head = tail exactly when nothing is
\* readable, and a step of the interrupt handler never moves head onto tail.
C8_RingInvariant ==
    /\ [](/\ Readable = Len(Accepted) - Len(fedLog)
          /\ Len(Accepted) - Len(fedLog) <= MIDI_RX_BUFFER_SIZE - 1
          /\ (s_rx_head = s_rx_tail) <=> (Len(Accepted) = Len(fedLog)))
    /\ [][rxLog' # rxLog => s_rx_head' # s_rx_tail']_vars

\* C8 witness: the ring is full and has wrapped around
C8_Witness ==
    /\ Readable = MIDI_RX_BUFFER_SIZE - 1
    /\ s_rx_head < s_rx_tail

\* C9: a byte that arrives while (head + 1) mod N = tail is dropped: head,
\* tail and the ring contents stay, the overrun counter grows by one; no
\* message is ever emitted that contains the dropped byte.
C9_RingOverflow ==
    /\ [][(/\ rxLog' # rxLog
           /\ (s_rx_head + 1) % MIDI_RX_BUFFER_SIZE = s_rx_tail)
          => /\ s_rx_head' = s_rx_head
             /\ s_rx_tail' = s_rx_tail
             /\ s_rx_buffer' = s_rx_buffer
             /\ s_error_count' = s_error_count + 1
             /\ dropLog' = Append(dropLog, Len(rxLog'))]_vars
    /\ [](\A k \in 1..Len(dropLog) : \A e \in 1..Len(emitLog) :
             \A j \in 1..emitLog[e].length :
                emitLog[e].raw[j] # rxLog[dropLog[k]])

\* C9 witness: one byte was dropped, later bytes were accepted and a message
\* was emitted after the drop
C9_Witness ==
    /\ s_error_count = 1
    /\ Len(rxLog) > dropLog[1]
    /\ s_rx_head = s_rx_tail
    /\ Len(emitLog) >= 2

\* the parser as midi_uart_init leaves it, statics otherwise zero
ParserAtInit ==
    [state |-> PARSER_IDLE, running |-> 0, cur |-> ZeroMessage,
     expected |-> 0, ready |-> FALSE, queue |-> ZeroMessage,
     count |-> 0, out |-> <<>>]

\* parse_byte applied to the bytes of a stream in turn
RECURSIVE RunParser(_, _)
RunParser(p, stream) ==
    IF stream = <<>> THEN p
    ELSE RunParser(parse_byte(p, Head(stream)), Tail(stream))

NonRealtime(log) == SelectSeq(log, LAMBDA m : m.raw[1] < 248)

\* the drain step just taken fed a byte to the parser
FedByte == Len(fedLog') = Len(fedLog) + 1

\* C6: a real-time byte b >= 0xF8 fed in any parser state emits exactly one
\* message of length 1 with raw[0] = b and leaves the parser state, the
\* running status, the expected data byte count, the message being built and
\* the single-message slot as they were; the other messages are those the
\* parser emits for the stream with the real-time bytes taken out.
C6_RealtimeTransparency ==
    /\ [][(FedByte /\ fedLog'[Len(fedLog')] >= 248)
          => /\ Len(lastEmit') = 1
             /\ lastEmit'[1].length = 1
             /\ lastEmit'[1].raw[1] = fedLog'[Len(fedLog')]
             /\ emitLog' = Append(emitLog, lastEmit'[1])
             /\ s_parser_state' = s_parser_state
             /\ s_running_status' = s_running_status
             /\ s_expected_data_bytes' = s_expected_data_bytes
             /\ s_current_msg' = s_current_msg
             /\ s_message_ready' = s_message_ready
             /\ s_message_queue' = s_message_queue]_vars
    /\ [](NonRealtime(emitLog)
             = RunParser(ParserAtInit, StripRT(fedLog)).out)

\* C6 witness: 0xF8 between the two data bytes of a NoteOn; a Clock message
\* and then the NoteOn were emitted
C6_Witness ==
    /\ fedLog = <<145, 64, 248, 64>>
    /\ Len(emitLog) = 2
    /\ emitLog[1].type = MIDI_MSG_CLOCK
    /\ emitLog[2] = Message(MIDI_MSG_NOTE_ON, 1, 64, 64, 145, 64, 64, 3)

\* C10: the running status is always 0 or a channel-voice status byte; a
\* channel-voice status byte sets it to that byte, a status byte 0xF0..0xF7
\* clears it, a real-time byte and a data byte leave it alone.
C10_RunningStatus ==
    /\ [](s_running_status = 0 \/ s_running_status \in 128..239)
    /\ [][FedByte
          => LET b == fedLog'[Len(fedLog')]
             IN CASE b \in 128..239 -> s_running_status' = b
                  [] b \in 240..247 -> s_running_status' = 0
                  [] OTHER -> s_running_status' = s_running_status]_vars

\* C10 witness: the running status was set by 0x91, kept over a real-time
\* byte and a data byte, and cleared by 0xF6
C10_Witness ==
    /\ fedLog = <<145, 248, 64, 246>>
    /\ s_running_status = 0

\* the position of the last status byte of d (real-time bytes removed), 0 if
\* it has none
LastStatusPos(d) ==
    LET S == {i \in 1..Len(d) : d[i] >= 128}
    IN IF S = {} THEN 0 ELSE CHOOSE i \in S : \A k \in S : k <= i

\* data bytes per message of a channel-voice status byte, by the MIDI tables
GroupLen(s) == IF s \div 16 \in {12, 13} THEN 1 ELSE 2

\* C11: after a channel-voice status byte s and only data bytes since (and
\* real-time bytes, which do not count), the data byte that completes a group
\* of 1 (ProgramChange, ChannelPressure) or 2 data bytes emits exactly one
\* message built from s: kind of s, channel s & 0x0F, the group's data,
\* raw[0] = s (NoteOff and 0x80|channel for a NoteOn of velocity 0); a data
\* byte inside a group emits nothing.
C11_RunningStatusGroups ==
    LET d == StripRT(fedLog)
        j == LastStatusPos(d)
        s == d[j]
        n == GroupLen(s)
        k == Len(d) - j
        ch == s % 16
        last == d[Len(d)]
        zeroOn == s \div 16 = 9 /\ last = 0
        e == lastEmit[1]
    IN (/\ fedLog # <<>>
        /\ fedLog[Len(fedLog)] < 128
        /\ j # 0
        /\ s \in 128..239)
       => IF k % n # 0 THEN lastEmit = <<>>
          ELSE /\ Len(lastEmit) = 1
               /\ e.type = (IF zeroOn THEN MIDI_MSG_NOTE_OFF ELSE (s \div 16) - 7)
               /\ e.channel = ch
               /\ e.raw[1] = (IF zeroOn THEN 128 + ch ELSE s)
               /\ e.length = n + 1
               /\ IF n = 1
                  THEN e.data1 = last /\ e.raw[2] = last
                  ELSE /\ e.data1 = d[Len(d) - 1] /\ e.raw[2] = d[Len(d) - 1]
                       /\ e.data2 = last /\ e.raw[3] = last

\* C11 witness: the second data pair after 0x91, with a Clock inside it, was
\* emitted as a NoteOff on channel 1 under running status
C11_Witness ==
    /\ fedLog = ScenarioRunningRT
    /\ lastEmit = <<Message(MIDI_MSG_NOTE_OFF, 1, 62, 0, 129, 62, 0, 3)>>
    /\ Len(emitLog) = 4

\* data bytes of a status byte by the MIDI tables; -1 where a well-formed
\* stream without SysEx has no such status byte
EventDataLen(s) ==
    CASE s \in 128..239 -> GroupLen(s)
      [] s \in {241, 243} -> 1
      [] s = 242 -> 2
      [] s = 246 -> 0
      [] OTHER -> -1

\* The logical MIDI events of a stream d without real-time bytes, read by the
\* MIDI grammar under the running status rs: ok says that d is well formed,
\* pending counts the bytes of an unfinished last event, evs are the events,
\* each as its status byte (the running status where it has none) and data.
RECURSIVE Events(_, _)
Events(d, rs) ==
    IF d = <<>> THEN [ok |-> TRUE, pending |-> 0, evs |-> <<>>]
    ELSE LET b == Head(d)
             s == IF b >= 128 THEN b ELSE rs
             body == IF b >= 128 THEN Tail(d) ELSE d
             n == EventDataLen(s)
             bad == [ok |-> FALSE, pending |-> 0, evs |-> <<>>]
         IN IF s = 0 \/ n = -1 THEN bad
            ELSE IF \E i \in 1..Min(n, Len(body)) : body[i] >= 128 THEN bad
            ELSE IF Len(body) < n
                 THEN [ok |-> TRUE, pending |-> Len(d), evs |-> <<>>]
            ELSE LET rest == Events(SubSeq(body, n + 1, Len(body)),
                                    IF s < 240 THEN s ELSE 0)
                 IN [rest EXCEPT
                        !.evs = <<(<<s>> \o SubSeq(body, 1, n))>> \o rest.evs]

RECURSIVE Flatten(_)
Flatten(seqs) == IF seqs = <<>> THEN <<>> ELSE Head(seqs) \o Flatten(Tail(seqs))

\* raw[0..length) of each emitted message that is not real-time
EmittedRaw ==
    LET ms == NonRealtime(emitLog)
    IN [i \in 1..Len(ms) |-> SubSeq(ms[i].raw, 1, ms[i].length)]

\* a NoteOn event of velocity 0 with its status rewritten to NoteOff
CanonEvent(e) ==
    IF e[1] \in 144..159 /\ e[3] = 0 THEN <<e[1] - 16, e[2], e[3]>> ELSE e

\* the stream fed so far is well formed and ends on an event boundary
WellFormedFed ==
    LET r == Events(StripRT(fedLog), 0) IN r.ok /\ r.pending = 0

\* C12 as stated: for a well-formed stream the raw bytes of the non-real-time
\* emissions, concatenated, are the input without its real-time bytes.
C12_RoundTrip == WellFormedFed => Flatten(EmittedRaw) = StripRT(fedLog)

\* C12, amended: for a well-formed stream (SysEx apart) the parser emits one
\* message per logical event, and raw[0..length) of the i-th non-real-time
\* emission is the i-th event: its status byte (the running status where the
\* event has none; 0x8n for a NoteOn of velocity 0) and its data bytes.
C12_EventExpansion ==
    WellFormedFed =>
       LET evs == Events(StripRT(fedLog), 0).evs
       IN EmittedRaw = [i \in 1..Len(evs) |-> CanonEvent(evs[i])]

\* C12 witness: a ProgramChange, a NoteOn and a running-status NoteOn of
\* velocity 0 with a Clock inside it were fed and emitted
C12_Witness ==
    /\ fedLog = ScenarioRunningRT
    /\ WellFormedFed
    /\ EmittedRaw = <<(<<194, 5>>), (<<145, 60, 64>>), (<<129, 62, 0>>)>>
    /\ Len(emitLog) = 4

\* C13: after the status byte 0xF7 is fed, in whatever state the parser was,
\* exactly one message SysExEnd of length 1 with raw[0] = 0xF7 has been
\* emitted for it, the running status is 0 and the parser is Idle.
C13_SysExEndEmitted ==
    (fedLog # <<>> /\ fedLog[Len(fedLog)] = 247)
    => /\ Len(lastEmit) = 1
       /\ lastEmit[1].type = MIDI_MSG_SYSEX_END
       /\ lastEmit[1].length = 1
       /\ lastEmit[1].raw[1] = 247
       /\ s_running_status = 0
       /\ s_parser_state = PARSER_IDLE

\* C14: a data byte fed while the parser is Idle with no running status, or
\* while it is in SysEx, emits no message, calls no callback and leaves the
\* parser state, the running status, the message being built, the message
\* counter and the single-message slot as they were.
C14_StrayDataSkipped ==
    [][(/\ FedByte
        /\ fedLog'[Len(fedLog')] < 128
        /\ \/ s_parser_state = PARSER_IDLE /\ s_running_status = 0
           \/ s_parser_state = PARSER_SYSEX)
       => /\ lastEmit' = <<>>
          /\ emitLog' = emitLog
          /\ usbOffered' = usbOffered
          /\ s_parser_state' = s_parser_state
          /\ s_running_status' = s_running_status
          /\ s_current_msg' = s_current_msg
          /\ s_message_count' = s_message_count
          /\ s_message_ready' = s_message_ready
          /\ s_message_queue' = s_message_queue]_vars

\* C14 witness: a data byte was fed in Idle without running status, another
\* in SysEx, and nothing was emitted or counted
C14_Witness ==
    /\ fedLog = <<64, 240, 0>>
    /\ s_parser_state = PARSER_SYSEX
    /\ emitLog = <<>>
    /\ s_message_count = 0

\* C15: in whatever state the parser is, a channel-voice status byte emits
\* nothing (a message cut short is dropped for good), the first of its two
\* data bytes emits nothing, and its last data byte emits exactly one
\* message that carries this status (0x8n for a NoteOn of velocity 0) and
\* these data bytes and leaves the parser Idle; the coordinator stays Active.
C15_Resynchronization ==
    /\ [][(FedByte /\ fedLog'[Len(fedLog')] \in 128..239)
          => /\ lastEmit' = <<>>
             /\ emitLog' = emitLog
             /\ s_message_ready' = s_message_ready
             /\ s_message_queue' = s_message_queue
             /\ s_active' /\ s_active]_vars
    /\ [](LET d == StripRT(fedLog)
              j == LastStatusPos(d)
              s == d[j]
              n == GroupLen(s)
              zeroOn == s \div 16 = 9 /\ d[Len(d)] = 0
              e == lastEmit[1]
          IN (j # 0 /\ s \in 128..239 /\ fedLog[Len(fedLog)] < 128) =>
               /\ (Len(d) - j < n => lastEmit = <<>>)
               /\ (Len(d) - j = n =>
                     /\ Len(lastEmit) = 1
                     /\ SubSeq(e.raw, 1, e.length)
                           = <<(IF zeroOn THEN s - 16 ELSE s)>>
                                \o SubSeq(d, j + 1, Len(d))
                     /\ e.type = (IF zeroOn THEN MIDI_MSG_NOTE_OFF
                                  ELSE (s \div 16) - 7)
                     /\ e.channel = s % 16
                     /\ s_parser_state = PARSER_IDLE
                     /\ s_active))

\* C15 witness: a NoteOn cut short in Data2 was followed by a complete
\* NoteOn, which is the only message emitted
C15_Witness ==
    /\ fedLog = <<145, 60, 145, 62, 80>>
    /\ emitLog = <<Message(MIDI_MSG_NOTE_ON, 1, 62, 80, 145, 62, 80, 3)>>
    /\ s_active

VoiceKind(m) == m.type \in MIDI_MSG_NOTE_OFF..MIDI_MSG_PITCH_BEND

\* C16: a message whose kind is not channel-voice never puts a byte on the
\* Link Sink nor changes the forward counter: every step that does either
\* works on a fetched channel-voice message, and a fetched message of another
\* kind leaves both as they were; every such message the parser emits is
\* passed to the USB sender.  S5: ten 0xFE bytes give ten one-byte messages,
\* no Link byte, and only packets 0F FE 00 00 on USB.
C16_NonVoiceNotForwarded ==
    /\ [][(linkLog' # linkLog \/ s_forward_count' # s_forward_count)
          => VoiceKind(msg) /\ rt_pc = "tx"]_vars
    /\ []((rt_pc = "get" /\ msg # ZeroMessage /\ ~VoiceKind(msg))
          => /\ LinkSinceFetch = <<>>
             /\ s_forward_count = fwdMark
             /\ txq = <<>>)
    /\ [](SelectSeq(usbOffered, LAMBDA m : ~VoiceKind(m))
             = SelectSeq(emitLog, LAMBDA m : ~VoiceKind(m)))
    /\ []((\A i \in 1..Len(emitLog) : ~VoiceKind(emitLog[i]))
          => linkLog = <<>> /\ s_forward_count = 0 /\ link_tx_count = 0)
    /\ [](fedLog = ScenarioS5
          => /\ Len(emitLog) = 10
             /\ \A i \in 1..10 :
                   emitLog[i].length = 1 /\ emitLog[i].raw[1] = 254
             /\ linkLog = <<>>
             /\ Len(usbOffered) = 10
             /\ \A i \in 1..Len(usbTxLog) : usbTxLog[i] = <<15, 254, 0, 0>>
             /\ (~mounted => usbTxLog = <<>>))

\* C16 witness: scenario S5 ended with ten messages, no Link byte and ten
\* USB packets
C16_Witness ==
    /\ fedLog = ScenarioS5
    /\ Len(emitLog) = 10
    /\ linkLog = <<>>
    /\ Len(usbTxLog) = 10
    /\ rt_pc = "idle"

\* C16 witness of the system-common case: a Song Position message was
\* fetched by the loop and not forwarded
C16_WitnessFetched ==
    /\ rt_pc = "get"
    /\ msg.type = MIDI_MSG_SONG_POSITION
    /\ LinkSinceFetch = <<>>

\* The Link byte stream d cut into messages: a status byte 0x80..0xEF and
\* its 1 or 2 data bytes each, no running status; ok says that d is such a
\* concatenation up to an unfinished last message, whose bytes are pending.
RECURSIVE LinkEvents(_)
LinkEvents(d) ==
    IF d = <<>> THEN [ok |-> TRUE, pending |-> <<>>, evs |-> <<>>]
    ELSE LET s == Head(d)
             n == GroupLen(s)
             got == Min(n, Len(d) - 1)
         IN IF s \notin 128..239 \/ \E i \in 2..(got + 1) : d[i] >= 128
            THEN [ok |-> FALSE, pending |-> <<>>, evs |-> <<>>]
            ELSE IF Len(d) - 1 < n
                 THEN [ok |-> TRUE, pending |-> d, evs |-> <<>>]
            ELSE LET rest == LinkEvents(SubSeq(d, n + 2, Len(d)))
                 IN [rest EXCEPT !.evs = <<SubSeq(d, 1, n + 1)>> \o rest.evs]

\* ev is the message m with its channel replaced by an mGB channel
RemappedFrom(ev, m) ==
    /\ VoiceKind(m)
    /\ Len(ev) = m.length
    /\ ev[1] \div 16 = m.raw[1] \div 16
    /\ ev[1] % 16 \in 0..(MGB_CHANNEL_COUNT - 1)
    /\ \A i \in 2..Len(ev) : ev[i] = m.raw[i]

\* the Link messages evs are remapped copies of a subsequence of msgs
RECURSIVE RemappedSubSeq(_, _)
RemappedSubSeq(evs, msgs) ==
    IF evs = <<>> THEN TRUE
    ELSE IF msgs = <<>> THEN FALSE
    ELSE \/ /\ RemappedFrom(Head(evs), Head(msgs))
            /\ RemappedSubSeq(Tail(evs), Tail(msgs))
         \/ RemappedSubSeq(evs, Tail(msgs))

\* C17: the bytes enqueued to the Link Sink are a concatenation of complete
\* remapped messages (status, data1, [data2]) in the order in which their
\* originals were parsed; an unfinished message is on the Link only while
\* the loop is sending it, and the bytes still to send complete it.
C17_LinkOrderAtomicity ==
    LET r == LinkEvents(linkLog)
        whole == LinkEvents(linkLog \o txq)
    IN /\ r.ok
       /\ rt_pc # "tx" => r.pending = <<>>
       /\ whole.ok /\ whole.pending = <<>>
       /\ RemappedSubSeq(whole.evs, emitLog)
       /\ rt_pc = "tx" =>
             RemappedFrom(whole.evs[Len(whole.evs)], msg)

\* C17 witness: both NoteOns of scenario S1 are on the Link, in order
C17_Witness ==
    /\ fedLog = ScenarioS1
    /\ linkLog = <<144, 60, 64, 144, 62, 80>>

\* C18: every message the DIN parser emits, of any kind, is passed to the
\* USB sender exactly once and in parse order, within the parse of the byte
\* that completed it (so before the next ring byte is parsed), whether the
\* slot is occupied or not and whatever the channel map says; nothing else
\* passes a message to the USB sender.
C18_UsbMirror ==
    /\ [](usbOffered = emitLog /\ Len(usbOffered) = s_message_count)
    /\ [][IF FedByte
          THEN /\ usbOffered' = usbOffered \o lastEmit'
               /\ Len(lastEmit') = s_message_count' - s_message_count
          ELSE usbOffered' = usbOffered /\ emitLog' = emitLog]_vars

\* C18 witness: a NoteOn completed while the slot still held a Song Position
\* message, and both were passed to the USB sender
C18_Witness ==
    /\ fedLog = <<242, 1, 2, 144, 60, 64>>
    /\ s_message_ready
    /\ s_message_queue.type = MIDI_MSG_SONG_POSITION
    /\ Len(usbOffered) = 2
    /\ usbOffered[2] = Message(MIDI_MSG_NOTE_ON, 0, 60, 64, 144, 60, 64, 3)

\* C19: mode_mgb_init acquires the Link Sink, then the UART, then USB, and
\* mode_mgb_deinit releases USB, then the UART, then the Link Sink: between
\* the parts of either call exactly the collaborators acquired so far (not
\* yet released) are initialised, and after deinit none is.
C19_LifecycleOrder ==
    /\ rt_pc = "init_uart"
          => link_initialized /\ ~uart_initialized /\ ~usb_initialized
    /\ rt_pc = "init_usb"
          => link_initialized /\ uart_initialized /\ ~usb_initialized
    /\ rt_pc = "idle"
          => link_initialized /\ uart_initialized /\ usb_initialized
    /\ rt_pc = "deinit_link"
          => link_initialized /\ ~uart_initialized /\ ~usb_initialized
    /\ rt_pc = "down"
          => ~link_initialized /\ ~uart_initialized /\ ~usb_initialized

\* C20: when a collaborator's init reports failure inside mode_mgb_init, the
\* collaborators this call had initialised are deinitialised again and the
\* coordinator stays Inactive; the call goes on to the next collaborator only
\* after a success, the coordinator is Active only with all three
\* initialised, and after a failed init no step changes anything.
C20_InitRollback ==
    /\ [](rt_pc = "halt"
             => ~s_active /\ ~link_initialized /\ ~uart_initialized)
    /\ [](rt_pc \in {"init_uart", "init_usb"}
             => link_initialized /\ ~s_active)
    /\ []((s_active /\ rt_pc # "deinit_link")
             => link_initialized /\ uart_initialized /\ usb_initialized)
    /\ [][rt_pc = "halt" => vars' = vars]_vars

\* C20 witness: gb_link_init failed at power-on; nothing is initialised and
\* the coordinator is Inactive
C20_Witness ==
    /\ rt_pc = "halt"
    /\ ~s_active
    /\ ~link_initialized /\ ~uart_initialized /\ ~usb_initialized
    /\ s_config = DefaultConfig

\* C21: a USB send that fails (device not mounted, or the host queue refuses
\* the packet) writes no packet and leaves the USB tx counter alone; a packet
\* is written only within the parse step of its message, so a message that
\* failed is never sent later; the message is stored in the slot and
\* forwarded to the Link Sink all the same.
C21_UsbFailureLocal ==
    /\ [](usb_tx_count = Len(usbTxLog) /\ Len(usbTxLog) <= Len(usbOffered))
    /\ [][~mounted => usbTxLog' = usbTxLog /\ usb_tx_count' = usb_tx_count]_vars
    /\ [][usbTxLog' # usbTxLog
          => /\ FedByte
             /\ Len(lastEmit') = 1
             /\ usbTxLog' = Append(usbTxLog,
                   <<usbTxLog'[Len(usbTxLog')][1], lastEmit'[1].raw[1],
                     IF lastEmit'[1].length > 1 THEN lastEmit'[1].raw[2] ELSE 0,
                     IF lastEmit'[1].length > 2 THEN lastEmit'[1].raw[3] ELSE 0>>)
             /\ usb_tx_count' = usb_tx_count + 1]_vars
    /\ [][(FedByte /\ lastEmit' # <<>> /\ lastEmit'[1].raw[1] < 248)
          => /\ s_message_ready'
             /\ ~s_message_ready => s_message_queue' = lastEmit'[1]]_vars
    /\ []((/\ rt_pc = "get"
           /\ VoiceKind(msg)
           /\ s_config.midi_to_mgb_channel[msg.channel] \in 0..4
           /\ s_config.channel_enabled[
                 s_config.midi_to_mgb_channel[msg.channel]])
          => LinkSinceFetch
                = <<(msg.raw[1] \div 16) * 16
                       + s_config.midi_to_mgb_channel[msg.channel]>>
                  \o SubSeq(msg.raw, 2, msg.length))

\* C21 witness: the device was not mounted, three messages were offered to
\* the USB sender and none written, and the NoteOn is on the Link
C21_Witness ==
    /\ ~mounted
    /\ fedLog = <<246, 145, 60, 64, 248>>
    /\ Len(usbOffered) = 3
    /\ usbTxLog = <<>>
    /\ usb_tx_count = 0
    /\ linkLog = <<145, 60, 64>>

\* C21 witness of the refused packet: mounted, a message offered, no packet
\* written, the message forwarded to the Link Sink
C21_WitnessRefused ==
    /\ mounted
    /\ fedLog = <<242, 1, 2, 144, 60, 64>>
    /\ usbTxLog = <<>>
    /\ linkLog = <<144, 60, 64>>

\* the length the specified inbound table gives a code index
SpecifiedLength(code_index) ==
    CASE code_index \in {2, 6} -> 2
      [] code_index \in {3, 4, 7} \cup 8..14 -> 3
      [] code_index \in {5, 15} -> 1
      [] OTHER -> 0

\* C22: every packet decoded has the length the specified table gives its
\* code index (0x02 -> 2, 0x03 -> 3, 0x04 -> 3, 0x05 -> 1, 0x06 -> 2,
\* 0x07 -> 3, 0x08..0x0E -> 3, 0x0F -> 1), raw[0..2] are packet bytes 1..3
\* and the kind is the parser's kind of raw[0].
C22_UsbInboundDecode ==
    \A i \in 1..Len(usbParsed) :
        LET packet == usbParsed[i][1]
            m == usbParsed[i][2]
            code_index == packet[1] % 16
        IN code_index \in ({2, 3, 4, 5, 6, 7, 15} \cup 8..14)
           => /\ m.length = SpecifiedLength(code_index)
              /\ m.raw = <<packet[2], packet[3], packet[4]>>
              /\ m.type = get_message_type(packet[2])

\* C22, what the decoder does: the table holds for every code index but
\* 0x04 and 0x07 (and 0x0C, 0x0D, which decode with length 2); a packet
\* with code index 0x04 or 0x07 decodes to length 0 and no kind, and is
\* not handed to the callback
C22_DecodeAsCoded ==
    /\ \A i \in 1..Len(usbParsed) :
         LET packet == usbParsed[i][1]
             m == usbParsed[i][2]
             code_index == packet[1] % 16
         IN /\ m.raw = <<packet[2], packet[3], packet[4]>>
            /\ code_index \in {2, 3, 5, 6, 8, 9, 10, 11, 14, 15}
               => /\ m.length = SpecifiedLength(code_index)
                  /\ m.type = get_message_type(packet[2])
            /\ code_index \in {12, 13}
               => m.length = 2 /\ m.type = get_message_type(packet[2])
            /\ code_index \in {0, 1, 4, 7}
               => m.length = 0 /\ m.type = MIDI_MSG_NONE
    /\ \A i \in 1..Len(usbDecoded) : usbDecoded[i].length > 0

\* a SysEx start packet was decoded
C22_Witness ==
    /\ usbParsed # <<>>
    /\ usbParsed[1][1] = <<4, 240, 126, 0>>

\* the code index the specified outbound rule gives a message: the status
\* nibble for channel-voice, 0x0F for real-time, 0x02 / 0x03 / 0x05 for
\* system common of two / three / one bytes
SpecifiedCodeIndex(m) ==
    CASE m.raw[1] \in 128..239 -> m.raw[1] \div 16
      [] m.raw[1] \in 248..255 -> 15
      [] m.length = 2 -> 2
      [] m.length = 3 -> 3
      [] OTHER -> 5

\* cable 0 and the specified code index, then raw[0..length) and zeros
SpecifiedPacket(m) ==
    <<0 * 16 + SpecifiedCodeIndex(m),
      m.raw[1],
      IF m.length > 1 THEN m.raw[2] ELSE 0,
      IF m.length > 2 THEN m.raw[3] ELSE 0>>

\* C23: every packet written to the host is the specified encoding of a
\* message passed to the USB sender: cable 0, the code index of the kind
\* (0x08..0x0E channel-voice, 0x0F for every real-time byte 0xF8..0xFF,
\* 0x02 / 0x03 / 0x05 system common), bytes 1..3 = raw[0..length) padded
\* with zeros.
C23_UsbOutboundEncode ==
    \A i \in 1..Len(usbTxLog) :
        \E j \in 1..Len(usbOffered) :
            usbTxLog[i] = SpecifiedPacket(usbOffered[j])

\* C23, what the encoder does: a message whose kind is one of the named
\* kinds is encoded as specified; a message of kind None (status 0xF4,
\* 0xF5, 0xF9, 0xFD) is written with code index 0
C23_EncodeAsCoded ==
    \A i \in 1..Len(usbTxLog) :
        \E j \in 1..Len(usbOffered) :
            LET m == usbOffered[j]
            IN /\ usbTxLog[i][1] \div 16 = 0
               /\ SubSeq(usbTxLog[i], 2, 4)
                     = <<m.raw[1],
                         IF m.length > 1 THEN m.raw[2] ELSE 0,
                         IF m.length > 2 THEN m.raw[3] ELSE 0>>
               /\ usbTxLog[i][1]
                     = IF m.type = MIDI_MSG_NONE
                       THEN 0 ELSE SpecifiedCodeIndex(m)

\* the undefined real-time byte 0xF9 was written to the host
C23_Witness ==
    /\ usbTxLog # <<>>
    /\ usbTxLog[1][2] = 249

\* the record invariant of a channel-voice message
RecordInvariant(m) ==
    VoiceKind(m)
    => /\ m.raw[1] = (7 + m.type) * 16 + m.channel
       /\ m.channel \in 0..15
       /\ m.length = IF m.type \in {MIDI_MSG_PROGRAM_CHANGE,
                                    MIDI_MSG_CHANNEL_PRESSURE}
                     THEN 2 ELSE 3
       /\ m.data1 < 128
       /\ m.data2 < 128

\* C24: every channel-voice record the DIN parser emits or the USB decoder
\* hands on (length > 0) has raw[0] = status nibble of its kind | channel,
\* the length of its kind (2 for ProgramChange and ChannelPressure, else 3)
\* and data bytes with bit 7 clear.
C24_MessageRecordInvariant ==
    /\ \A i \in 1..Len(emitLog) : RecordInvariant(emitLog[i])
    /\ \A i \in 1..Len(usbDecoded) : RecordInvariant(usbDecoded[i])

\* C24, the parser's half: every record the DIN parser emits satisfies the
\* record invariant, and the data bytes in raw[1..length) are those of
\* data1 and data2
C24_ParserRecords ==
    \A i \in 1..Len(emitLog) :
        /\ RecordInvariant(emitLog[i])
        /\ VoiceKind(emitLog[i])
           => /\ emitLog[i].raw[2] = emitLog[i].data1
              /\ emitLog[i].length = 3
                 => emitLog[i].raw[3] = emitLog[i].data2

\* C24, the decoder's half as coded: the length is that of the code index
\* whatever the kind, raw[0] agrees with kind and channel in a record of
\* two or three bytes, the data bytes are unchecked
C24_DecoderRecords ==
    \A i \in 1..Len(usbDecoded) :
        VoiceKind(usbDecoded[i])
        => /\ usbDecoded[i].length \in 1..3
           /\ usbDecoded[i].length > 1
              => usbDecoded[i].raw[1]
                    = (7 + usbDecoded[i].type) * 16 + usbDecoded[i].channel
           /\ usbDecoded[i].length = 1 => usbDecoded[i].channel = 0

\* a ProgramChange status arrived in a NoteOn packet
C24_Witness ==
    /\ usbDecoded # <<>>
    /\ usbDecoded[1].type = MIDI_MSG_PROGRAM_CHANGE
    /\ usbDecoded[1].length = 3

\* the ring indices holding unread bytes: [tail, head)
UnreadCells ==
    {(s_rx_tail + k) % MIDI_RX_BUFFER_SIZE : k \in 0..(Readable - 1)}

\* C25: a step of the UART interrupt handler changes only head, the ring
\* cell at the old head index (never an unread cell) and the byte-received
\* and overrun counters, and leaves tail, parser state, message counter and
\* slot alone; a step of the loop-context drain and parser, and the fetch of
\* the slot, leave head, ring contents and the handler's counters alone.
C25_SpscOwnership ==
    /\ [][wire' # wire
          => /\ UNCHANGED <<s_rx_tail, parserVars>>
             /\ \A i \in 0..(MIDI_RX_BUFFER_SIZE - 1) :
                   s_rx_buffer'[i] # s_rx_buffer[i]
                   => /\ i = s_rx_head
                      /\ i \notin UnreadCells
                      /\ s_rx_head' = RingNext(s_rx_head)
             /\ s_rx_head' \in {s_rx_head, RingNext(s_rx_head)}
             /\ uart_rx_count' = uart_rx_count + 1
             /\ s_error_count' \in {s_error_count, s_error_count + 1}
             /\ UNCHANGED <<modeVars, linkVars, usbVars, loopVars,
                            s_message_callback, uart_initialized>>]_vars
    /\ [][(FedByte \/ <<s_rx_tail, parserVars>>' # <<s_rx_tail, parserVars>>)
          => /\ wire' = wire
             /\ rt_pc \in {"uart", "get"}
             /\ UNCHANGED <<s_rx_head, s_rx_buffer, uart_rx_count,
                            s_error_count>>]_vars

\* C25 witness: the handler has stored bytes and dropped one on overrun, the
\* drain has fed bytes to the parser, and unread bytes remain
C25_Witness ==
    /\ dropLog # <<>>
    /\ fedLog # <<>>
    /\ Readable > 0
    /\ s_message_count > 0

\* C26: no variable written by one execution unit is read or written by
\* the other (the ring and the counters, which only the interrupt handler
\* and unit A touch, aside); unit B never changes parser state, the ring
\* tail, the message slot or the Link Sink queue.
C26_UnitIsolation ==
    \A w \in ledWrites :
        \A a \in ledReads \cup ledWrites : a[2] = w[2] => a[1] = w[1]

\* C26, the part that holds: a step of core1_main leaves the ring, parser
\* state, message slot, counters, channel map and Link Sink queue unchanged
C26_UnitBLeavesPipeline ==
    [][c1_pc' # c1_pc /\ c1_pc # "off"
       => UNCHANGED <<ringVars, parserVars, uartVars, modeVars, linkVars,
                      usbVars, loopVars>>]_vars

\* C26, an effect of the shared LED state: unit A has just triggered the
\* activity LED for a forwarded message, and the auto-off that unit B had
\* decided on before switches it off at once and cancels the new timeout
C26_WitnessLostBlink ==
    /\ s_forward_count = 2
    /\ ~s_led_on
    /\ ~s_auto_off_pending
    /\ ~led_off_due

\* the default channel map and enable table, written out
DefaultsInForce ==
    /\ \A i \in 0..4 : s_config.midi_to_mgb_channel[i] = i
    /\ \A i \in 5..15 : s_config.midi_to_mgb_channel[i] = 255
    /\ \A i \in 0..4 : s_config.channel_enabled[i]
    /\ DOMAIN s_config.channel_enabled = 0..4

\* C27: after mode_mgb_init from Inactive and after mode_mgb_reset_config
\* from any configuration, map[0..4] = 0..4, map[5..15] is the unmapped
\* sentinel and the five enable flags are true; resetting a configuration
\* twice gives what resetting it once gives.
C27_ChannelMapDefaults ==
    /\ cfgOp \in {"init", "reset"} => DefaultsInForce
    /\ \A c \in Configs \cup {ZeroConfig, s_config} :
          apply_default_config(apply_default_config(c))
             = apply_default_config(c)

\* C27 witness: a NoteOn went out on mGB channel 2 under the alternative
\* configuration, the configuration was reset, and the next NoteOn went
\* out on channel 0
C27_Witness ==
    /\ cfgOp = "reset"
    /\ DefaultsInForce
    /\ linkLog = <<146, 60, 64, 144, 62, 80>>

\* C27 witness of init: defaults in force right after an init in which the
\* Link Sink failed
C27_WitnessInitFailed ==
    /\ cfgOp = "init"
    /\ rt_pc = "halt"
    /\ DefaultsInForce

\* a step of the interrupt handler, the real-time loop, the parser, the
\* forwarder, the USB receive path or core 1
PipelineStep ==
    \/ wire' # wire
    \/ usbWire' # usbWire
    \/ usb_fifo' # usb_fifo
    \/ rt_pc' # rt_pc
    \/ txq' # txq
    \/ fedLog' # fedLog
    \/ linkLog' # linkLog
    \/ usbOffered' # usbOffered
    \/ usbParsed' # usbParsed
    \/ c1_pc' # c1_pc

\* C28: while the coordinator is Active the channel map and the enable
\* table change only in a step of mode_mgb_set_config or
\* mode_mgb_reset_config; byte arrival, loop steps, parsing, forwarding and
\* USB processing leave them unchanged, and so does
\* mode_mgb_set_config(NULL).
C28_ChannelMapLifecycle ==
    /\ [][(s_active /\ s_config' # s_config)
          => cfgOp' \in {"set", "reset"} /\ ~PipelineStep]_vars
    /\ [][(s_active /\ PipelineStep) => s_config' = s_config]_vars
    /\ [][(cfgOp' = "set_null" /\ cfgOp # "set_null")
          => s_config' = s_config]_vars

\* C28 witness: the alternative configuration was installed, a NoteOn was
\* forwarded under it, mode_mgb_set_config(NULL) was called, and the
\* alternative configuration is still in force
C28_Witness ==
    /\ s_active
    /\ cfgOp = "set_null"
    /\ s_config = AltConfig
    /\ linkLog = <<146, 60, 64>>
    /\ usbParsed # <<>>

\* the five counters
Counters ==
    <<uart_rx_count, s_message_count, s_error_count, s_forward_count,
      s_drop_count>>

\* a step of the running pipeline: byte arrival, ring drain and parse,
\* slot fetch, forward, USB send or receive; not init, deinit or a reset
RunningStep ==
    /\ s_active
    /\ s_active'
    /\ rt_pc' \in {"idle", "uart", "usb", "get", "tx"}
    /\ \/ wire' # wire
       \/ usb_fifo' # usb_fifo
       \/ rt_pc' # rt_pc
       \/ txq' # txq
       \/ fedLog' # fedLog
       \/ linkLog' # linkLog
       \/ usbOffered' # usbOffered

\* C29: in every step of the running pipeline none of the byte-received,
\* message-parsed, overrun, forwarded and dropped counters decreases; the
\* message counter grows by the number of messages the step emits (one per
\* message) and the forward counter by one exactly in the step that puts
\* the last byte of the fetched message on the Link Sink.
C29_CounterMonotonicity ==
    /\ [][RunningStep
          => /\ \A i \in 1..5 : Counters'[i] >= Counters[i]
             /\ s_message_count' - s_message_count
                   = Len(emitLog') - Len(emitLog)
             /\ Len(emitLog') - Len(emitLog) \in {0, 1}
             /\ uart_rx_count' - uart_rx_count = Len(rxLog') - Len(rxLog)
             /\ s_error_count' - s_error_count
                   = Len(dropLog') - Len(dropLog)
             /\ s_forward_count' - s_forward_count
                   = IF /\ linkLog' # linkLog
                        /\ Len(linkLog') - linkMark = msg.length
                     THEN 1 ELSE 0]_vars
    /\ [][(\E i \in 1..5 : Counters'[i] < Counters[i]) => ~RunningStep]_vars

\* C29 witness: bytes arrived, one was dropped on overrun, messages were
\* parsed and one was forwarded whole
C29_Witness ==
    /\ uart_rx_count = 6
    /\ s_error_count = 1
    /\ s_message_count >= 2
    /\ s_forward_count = 1
    /\ Len(linkLog) = 3

\* C29 witness of the exclusion: a stats reset has lowered the forward
\* counter below the number of messages on the Link
C29_WitnessReset ==
    /\ s_forward_count = 0
    /\ Len(linkLog) = 6
    /\ rt_pc = "idle"

\* uint32_t mode_mgb_get_drop_count(void)
mode_mgb_get_drop_count == s_drop_count

C30_WitnessUnmapped ==
    /\ fedLog = ScenarioS4
    /\ msg.raw[1] = 149
    /\ rt_pc = "get"
    /\ linkLog = <<>>
    /\ s_forward_count = 0
    /\ mode_mgb_get_drop_count = 0

\* C30 witness of the disabled channel: the NoteOn of S2 on channel 1 was
\* fetched under the alternative configuration, nothing went to the Link
C30_WitnessDisabled ==
    /\ fedLog = ScenarioS2
    /\ msg.channel = 1
    /\ s_config = AltConfig
    /\ rt_pc = "get"
    /\ linkLog = <<>>
    /\ mode_mgb_get_drop_count = 0

\* C31: the LED is never left on with no auto-off pending, so that
\* led_update eventually switches off an LED that led_trigger_activity
\* switched on, for every interleaving of the two cores.
C31_LedAutoOff == s_led_on => s_auto_off_pending

\* C31, the state the LED is left in: all input forwarded, core 1 back at
\* the start of led_update, the LED on and nothing pending that would
\* switch it off
C31_WitnessStuckOn ==
    /\ s_led_on
    /\ ~s_auto_off_pending
    /\ wire = <<>>
    /\ s_rx_head = s_rx_tail
    /\ ~s_message_ready
    /\ rt_pc = "idle"
    /\ c1_pc = "led"

\* a step of the real-time loop at its call of midi_uart_get_message: not
\* one of the interrupt handler, the host or the other core
GetCall ==
    /\ rt_pc = "get"
    /\ wire' = wire
    /\ usbWire' = usbWire
    /\ c1_pc' = c1_pc
    /\ led_off_due' = led_off_due

\* C32: a completed message is stored in the slot only when the slot is
\* empty; an occupied slot keeps its content and flag and the newer message
\* is not queued; midi_uart_get_message returns false and leaves its output
\* alone when the slot is empty or the pointer is NULL, and otherwise
\* returns the stored message and empties the slot; the slot is filled only
\* by the parser, so a stored message is returned at most once.
C32_SingleSlot ==
    /\ [][(FedByte /\ lastEmit' # <<>> /\ lastEmit'[1].raw[1] < 248)
          => IF s_message_ready
             THEN UNCHANGED <<s_message_ready, s_message_queue>>
             ELSE s_message_ready' /\ s_message_queue' = lastEmit'[1]]_vars
    /\ [][(GetCall /\ ~s_message_ready)
          => /\ msg' = msg
             /\ UNCHANGED <<s_message_ready, s_message_queue>>
             /\ rt_pc' = "idle"]_vars
    /\ [][(GetCall /\ s_message_ready)
          => /\ msg' = s_message_queue
             /\ ~s_message_ready'
             /\ rt_pc' \in {"get", "tx"}]_vars
    /\ [][msg' # msg => \/ rt_pc = "get" /\ s_message_ready
                        \/ rt_pc = "idle" /\ msg' = ZeroMessage]_vars
    /\ [][(s_message_ready' /\ ~s_message_ready)
          => FedByte /\ lastEmit' # <<>>]_vars
    /\ [](midi_uart_get_message(s_message_ready, s_message_queue, msg, TRUE)
             = [ret |-> FALSE, ready |-> s_message_ready, out |-> msg])

\* C32 witness: the second message of a drain found the slot occupied by
\* the first and was not queued
C32_Witness ==
    /\ Len(emitLog) = 2
    /\ emitLog[2] # emitLog[1]
    /\ emitLog[2].raw[1] < 248
    /\ s_message_ready
    /\ s_message_queue = emitLog[1]
    /\ rt_pc = "uart"

\* C32 witness of the fetch: the first message was returned, the slot is
\* empty and the next call has returned false with msg as it was
C32_WitnessFetched ==
    /\ Len(emitLog) = 2
    /\ emitLog[2] # emitLog[1]
    /\ msg = emitLog[1]
    /\ ~s_message_ready
    /\ rt_pc = "idle"

\* C33: a loop step during which no UART byte arrives terminates, and when
\* it returns the ring is empty and the slot is empty.
C33_LoopStepTerminates ==
    /\ (rt_pc \in {"uart", "usb", "get", "tx"}) ~> (rt_pc = "idle")
    /\ [][(rt_pc = "get" /\ rt_pc' = "idle")
          => /\ s_rx_head' = s_rx_tail'
             /\ ~s_message_ready'
             /\ txq' = <<>>]_vars

\* C33 witness: a loop step that found five bytes in the ring and a packet
\* in the USB queue has returned, the first message forwarded
C33_Witness ==
    /\ rt_pc = "idle"
    /\ fedLog = ScenarioS3
    /\ Len(usbParsed) >= 1
    /\ Len(linkLog) >= 3
    /\ s_rx_head = s_rx_tail
    /\ ~s_message_ready

\* C34: under any configuration and any DIN input the forwarder indexes
\* the map within 0..15 and the enable table within 0..4, a map value of 5
\* or more forwards nothing, and the Link stream is a sequence of messages
\* of a status byte with high nibble 0x8..0xE and low nibble at most 4 and
\* exactly 1 (ProgramChange, ChannelPressure) or 2 data bytes below 0x80.
C34_LinkWellFormed ==
    LET r == LinkEvents(linkLog)
        whole == LinkEvents(linkLog \o txq)
        mgb_channel == s_config.midi_to_mgb_channel[msg.channel]
    IN /\ msg.channel \in DOMAIN s_config.midi_to_mgb_channel
       /\ DOMAIN s_config.midi_to_mgb_channel = 0..15
       /\ DOMAIN s_config.channel_enabled = 0..4
       /\ r.ok
       /\ whole.ok /\ whole.pending = <<>>
       /\ \A i \in 1..Len(whole.evs) :
             LET ev == whole.evs[i]
             IN /\ ev[1] \div 16 \in 8..14
                /\ ev[1] % 16 <= 4
                /\ Len(ev) = IF ev[1] \div 16 \in {12, 13} THEN 2 ELSE 3
                /\ \A k \in 2..Len(ev) : ev[k] < 128
       /\ (rt_pc = "get" /\ VoiceKind(msg) /\ mgb_channel >= 5)
          => LinkSinceFetch = <<>>
       /\ rt_pc = "tx"
          => /\ mgb_channel \in DOMAIN s_config.channel_enabled
             /\ s_config.channel_enabled[mgb_channel]

\* C34 witness: the NoteOn on channel 15 went out on mGB channel 0 under
\* the reversing map, the zero-velocity NoteOn after it was fetched under a
\* map of 0xFF and put nothing on the Link
C34_Witness ==
    /\ linkLog = <<144, 60, 64>>
    /\ fedLog = <<159, 60, 64, 62, 0>>
    /\ rt_pc = "get"
    /\ msg.raw = <<143, 62, 0>>
    /\ s_config.midi_to_mgb_channel[15] = 255

\* the data pairs after the status byte at j in d, up to the last but one
EarlierZeroPair(d, j) ==
    \E q \in 1..((Len(d) - j) \div 2 - 1) : d[j + 2 * q] = 0

\* C35: emitting 0x9n kk 00 as NoteOff leaves the running status at 0x9n:
\* a data pair kk2 vv that follows it under running status is emitted as
\* NoteOn on channel n with raw[0] = 0x90|n when vv # 0 and as NoteOff with
\* raw[0] = 0x80|n when vv = 0.
C35_CanonKeepsRunningStatus ==
    /\ [][(/\ FedByte
           /\ s_running_status \in 144..159
           /\ Len(lastEmit') = 1
           /\ lastEmit'[1].type = MIDI_MSG_NOTE_OFF)
          => /\ s_running_status' = s_running_status
             /\ lastEmit'[1].raw[1] = s_running_status - 16
             /\ lastEmit'[1].data2 = 0]_vars
    /\ [](LET d == StripRT(fedLog)
              j == LastStatusPos(d)
              n == d[j] - 144
              kk == d[Len(d) - 1]
              vv == d[Len(d)]
          IN (/\ fedLog # <<>>
              /\ fedLog[Len(fedLog)] < 128
              /\ j # 0
              /\ d[j] \in 144..159
              /\ (Len(d) - j) % 2 = 0
              /\ EarlierZeroPair(d, j))
             => /\ s_running_status = d[j]
                /\ lastEmit =
                     IF vv # 0
                     THEN <<Message(MIDI_MSG_NOTE_ON, n, kk, vv,
                                    144 + n, kk, vv, 3)>>
                     ELSE <<Message(MIDI_MSG_NOTE_OFF, n, kk, 0,
                                    128 + n, kk, 0, 3)>>)

\* C35 witness: 9F 3C 00 was emitted as NoteOff, the pair 3E 50 after it as
\* NoteOn on channel 15, the pair 40 00 after that as NoteOff
C35_Witness ==
    /\ fedLog = <<159, 60, 0, 62, 80, 64, 0>>
    /\ Len(emitLog) = 3
    /\ emitLog[1].raw = <<143, 60, 0>>
    /\ emitLog[2].raw = <<159, 62, 80>>
    /\ emitLog[2].type = MIDI_MSG_NOTE_ON
    /\ emitLog[3].raw = <<143, 64, 0>>
    /\ s_running_status = 159

\* m and d agree in kind, length, raw[0..length), data1 and data2, and in
\* channel when m is channel-voice
SameMessage(m, d) ==
    /\ d.type = m.type
    /\ d.length = m.length
    /\ \A i \in 1..m.length : d.raw[i] = m.raw[i]
    /\ d.data1 = m.data1
    /\ d.data2 = m.data2
    /\ VoiceKind(m) => d.channel = m.channel

\* C36: every message the DIN parser hands to the USB sender with a kind
\* other than None is recovered by decoding the packet that encodes it.
C36_UsbRoundTrip ==
    \A j \in 1..Len(usbOffered) :
        usbOffered[j].type # MIDI_MSG_NONE
        => SameMessage(usbOffered[j],
                       parse_usb_midi_packet(usb_packet_of(usbOffered[j])))

\* C36 witness: a canonicalised zero-velocity NoteOn, an MTC quarter frame
\* and a Tune Request were encoded and written to the host
C36_Witness ==
    /\ Len(usbTxLog) = 3
    /\ Len(usbOffered) = 3
    /\ usbOffered[1].raw[1] = 129
    /\ usbOffered[1].type = MIDI_MSG_NOTE_OFF
    /\ usbOffered[2].type = MIDI_MSG_MTC_QUARTER
    /\ usbOffered[3].type = MIDI_MSG_TUNE_REQUEST
    /\ usbTxLog[3] = <<5, 246, 0, 0>>

\* the messages of n bytes among the bytes d of the Link: a status byte
\* opens a message, Program Change and Channel Pressure have two bytes
LinkMessages(d, n) ==
    Cardinality({i \in 1..Len(d) :
                    /\ d[i] >= 128
                    /\ (IF d[i] \div 16 \in {12, 13} THEN 2 ELSE 3) = n})

\* C37: without a reset of the statistics after mode init, the Link tx
\* counter is 3 times the forwarded three-byte messages plus 2 times the
\* forwarded two-byte messages whenever no message is half sent, so
\* 2 * forward_count <= tx_count <= 3 * forward_count; the forwarded counter
\* changes only once all bytes of the message have been enqueued.
C37_LinkByteAccounting ==
    /\ [](/\ link_tx_count = Len(linkLog)
          /\ rt_pc # "tx"
             => /\ link_tx_count = 3 * LinkMessages(linkLog, 3)
                                     + 2 * LinkMessages(linkLog, 2)
                /\ s_forward_count = LinkMessages(linkLog, 3)
                                       + LinkMessages(linkLog, 2)
                /\ 2 * s_forward_count <= link_tx_count
                /\ link_tx_count <= 3 * s_forward_count
          /\ rt_pc = "tx"
             => /\ s_forward_count = LinkMessages(linkLog \o txq, 3)
                                       + LinkMessages(linkLog \o txq, 2) - 1
                /\ s_forward_count = fwdMark)
    /\ [][s_forward_count' # s_forward_count
          => \/ /\ s_forward_count' = 0
                /\ link_tx_count' = 0
                /\ rt_pc # "tx"
             \/ /\ s_forward_count' = s_forward_count + 1
                /\ rt_pc = "tx"
                /\ txq' = <<>>
                /\ link_tx_count' = linkMark
                      + (IF msg.type \in {MIDI_MSG_PROGRAM_CHANGE,
                                          MIDI_MSG_CHANNEL_PRESSURE}
                         THEN 2 ELSE 3)]_vars

\* C37 witness: a three-byte and a two-byte message have been forwarded,
\* five bytes are on the Link
C37_Witness ==
    /\ rt_pc # "tx"
    /\ s_forward_count = 2
    /\ link_tx_count = 5
    /\ LinkMessages(linkLog, 3) = 1
    /\ LinkMessages(linkLog, 2) = 1

\* the step is a call of the lifecycle operation op that found nothing to do
NoopCall(op) == cfgOp' # cfgOp /\ cfgOp' \in NoopMarks(op)

\* C38: a lifecycle operation applied where it does not apply changes
\* nothing: mode_mgb_init while Active leaves the collaborators, the
\* configuration, the counters, the callbacks and the pacing timestamp as
\* they are; mode_mgb_deinit while Inactive does nothing; mode_mgb_process
\* while Inactive drains no ring byte, advances no parser state and enqueues
\* no Link byte.
C38_LifecycleNoops ==
    /\ [][NoopCall("init_active")
          => /\ s_active /\ s_active'
             /\ UNCHANGED <<link_initialized, uart_initialized,
                            usb_initialized, link_tx_count>>
             /\ UNCHANGED <<s_config, s_forward_count, s_drop_count,
                            uart_rx_count, s_error_count, s_message_count,
                            usb_rx_count, usb_tx_count>>
             /\ UNCHANGED <<s_message_callback, usb_rx_callback, sinceStamp>>
             /\ UNCHANGED <<ringVars, parserVars, linkLog, loopVars>>]_vars
    /\ [][NoopCall("deinit_inactive")
          => /\ ~s_active /\ ~s_active'
             /\ UNCHANGED <<envVars, ringVars, parserVars, uartVars, modeVars,
                            linkVars, usbVars, loopVars, timeVars, ledVars>>]_vars
    /\ [][NoopCall("process_inactive")
          => /\ ~s_active /\ ~s_active'
             /\ UNCHANGED <<ringVars, parserVars, fedLog, emitLog>>
             /\ UNCHANGED <<linkLog, link_tx_count, txq, usb_fifo, rt_pc>>]_vars

\* C38 witness: mode_mgb_init was called while Active with a byte in the ring
\* and a forwarded message counted
C38_Witness ==
    /\ cfgOp = "init_active"
    /\ s_active
    /\ s_forward_count > 0
    /\ s_rx_head # s_rx_tail

\* C38 witness: mode_mgb_process was called while Inactive with unread bytes
\* in the ring
C38_WitnessProcess ==
    /\ cfgOp = "process_inactive"
    /\ ~s_active
    /\ s_rx_head # s_rx_tail

\* C38 witness: mode_mgb_deinit was called a second time after a deinit
C38_WitnessDeinit ==
    /\ cfgOp = "deinit_inactive"
    /\ rt_pc = "down"
    /\ linkLog # <<>>

\* C39: no byte accepted into the ring after midi_uart_init has enabled the
\* RX interrupt is lost: once the init has completed, the bytes fed to the
\* parser are the first of the accepted bytes, each once and in order, and
\* all of them when the ring is empty, for every interleaving of the
\* interrupt with the reset statements of midi_uart_init.
C39_NoLossAcrossInit ==
    uart_initialized
    => /\ Len(fedLog) <= Len(Accepted)
       /\ fedLog = SubSeq(Accepted, 1, Len(fedLog))
       /\ s_rx_head = s_rx_tail => fedLog = Accepted

\* C39, the loss: the first byte of the stream was accepted into the ring
\* during midi_uart_init and never fed to the parser, which is idle with
\* the rest of the stream parsed
C39_WitnessLost ==
    /\ uart_initialized
    /\ rt_pc = "idle"
    /\ wire = <<>>
    /\ s_rx_head = s_rx_tail
    /\ dropLog = <<>>
    /\ Len(rxLog) = Len(fedLog) + 1
    /\ fedLog = Tail(rxLog)

====
